---- MODULE Spec2Model ----
(***************************************************************************)
(* Model of the PitBull order-execution and position-risk engine:          *)
(*   - APIRateLimiter.acquire            (src/rate_limiter.py)             *)
(*   - start_process / handle_order      (src/order_process.py)            *)
(*   - start_monitoring / close_position (src/position_monitor.py)         *)
(*   - clear_in_process                  (src/fast_api.py)                 *)
(* All tasks run on one asyncio event loop: a step of the model is the     *)
(* code a task runs between two suspension points (network call, sleep,    *)
(* lock wait, queue get).                                                  *)
(***************************************************************************)
EXTENDS Integers, Sequences, FiniteSets, TLC

(***************************************************************************)
(* Bounds of the model.                                                    *)
(***************************************************************************)
NumCallers == 3
MaxTime == 4
TicksPerSecond == 2
RateLimit == 2
MaxCandidates == 2
MaxPolls == 2
NumAccounts == 2
MaxEntries == 1
MaxCycles == 2
InitVol == 2

MantissaBits == 9

MaxScale == 2
\* Largest holdVol handed to close_position.
MaxHoldVol == 4
\* Messages the Signal Source receives from the feed.
MaxMessages == 2

(***************************************************************************)
(* Program constants.                                                      *)
(***************************************************************************)
FailCooldown == 60
CooldownSeconds == 300
LossCooldown == 900
TimeoutCooldown == 600

VARIABLES
    \* ---- APIRateLimiter ----
    now,            \* time.monotonic(), in ticks
    timestamps,     \* self.timestamps (deque), oldest first
    lockOwner,      \* holder of self._lock, 0 when free
    lockWaiters,    \* FIFO of callers blocked on self._lock
    callerPc,       \* position of every caller of acquire()
    wakeAt,         \* time at which a sleeping caller's asyncio.sleep ends
    admitLog,       \* history: number of admissions stamped at each tick
    \* ---- shared: configuration and State Store ----
    settings,           \* contents of settings.json
    order_in_process,   \* tokens_info[s]['order_in_process']
    is_ignored,         \* tokens_info[s]['is_ignored']
    cooldown,           \* key cooldown:<symbol>: 0 when absent, else the ex= it was set with
    initial_spread,     \* key initial_spread:<positionId> present
    positions,          \* the exchange's open positions: held volume, 0 when closed
    \* ---- Order Processing Engine (start_process / handle_order) ----
    orders_queue,       \* asyncio.Queue hand-off queue
    unfinished,         \* the queue's unfinished-task counter (put / task_done)
    produced,           \* number of candidates the Signal Source has enqueued
    engPc,              \* suspension point of the start_process task
    order,              \* the dequeued candidate
    token,              \* start_process local: symbol of the bound token
    long_res,           \* handle_order local
    short_res,          \* handle_order local
    payload,            \* handle_order local
    pos_id,             \* finalize_order_and_setup_sl_tp local
    polls,              \* polls done by the current wait loop
    hist,               \* history of the candidate in hand
    accepted,           \* history: candidates accepted per symbol
    falls,              \* history: true->false transitions of order_in_process per symbol
    \* ---- Position Monitor (start_monitoring) ----
    monPc,              \* suspension point of the start_monitoring task
    cycles,             \* cycles of the "while True" loop started so far
    snap,               \* open_positions of this cycle: holdVol per position, 0 = not listed
    mpos,               \* the position the "for pos in open_positions" loop is at
    current_price,      \* ticker['lastPrice'] of that position's symbol
    auth_token,         \* local bound by "for auth_token in auth_tokens"; 0 = unbound
    new_payload,        \* pyramiding payload being submitted
    peak_price,         \* key peak_price:<positionId>, 0 when absent
    initial_vol,        \* key initial_vol:<positionId>, 0 when absent
    target_hit,         \* keys scaling_target_hit:<positionId>:<i>
    pyramiding_entries, \* key pyramiding_entries:<positionId>
    pyramiding_lock,    \* keys pyramiding_lock:<positionId>:<entries_count>
    aged,               \* the position is older than MAX_POSITION_HOURS
    ev,                 \* history of the position evaluation in hand
    closedBy,           \* history: strategy whose full close of the position succeeded
    everHit,            \* history: scale-out targets that were marked hit
    addons,             \* history: add-on orders placed per position
    \* ---- Signed Exchange Client (mexc_futures_calls) ----
    sent,               \* per caller: HTTP requests sent since its last acquire() began
    requests,           \* history: HTTP requests sent to the exchange, in total
    \* ---- price and volume normalisation (prepare_payload, SL/TP prices) ----
    calc                \* arguments and results of one computation

limVars == <<now, timestamps, lockOwner, lockWaiters, callerPc, wakeAt, admitLog>>

cfgVars == <<settings, is_ignored>>

storeVars == <<cooldown, initial_spread>>

engVars == <<orders_queue, unfinished, produced, engPc, order, token, long_res, short_res,
             payload, pos_id, polls, hist, accepted>>

monVars == <<monPc, cycles, snap, mpos, current_price, auth_token, new_payload, ev>>

riskVars == <<peak_price, initial_vol, target_hit, pyramiding_entries, pyramiding_lock>>

monHistVars == <<closedBy, everHit, addons>>

clientVars == <<sent, requests>>

vars == <<limVars, cfgVars, storeVars, positions, order_in_process, falls, engVars,
          monVars, riskVars, aged, monHistVars, clientVars, calc>>

nonLimVars == <<cfgVars, storeVars, positions, order_in_process, falls, engVars,
                monVars, riskVars, aged, monHistVars, clientVars, calc>>

\* What the limiter's steps leave alone when the exchange client runs them.
nonClientVars == <<cfgVars, storeVars, positions, order_in_process, falls, engVars,
                   monVars, riskVars, aged, monHistVars, calc>>

Callers == 1..NumCallers

(***************************************************************************)
(* APIRateLimiter                                                          *)
(***************************************************************************)
RECURSIVE Evict(_, _)
Evict(ts, t) ==
    IF ts # <<>> /\ Head(ts) <= t - TicksPerSecond
    THEN Evict(Tail(ts), t)
    ELSE ts

HasCapacityOff(ts) == Len(ts) <= RateLimit

HasCapacity(ts) == Len(ts) < RateLimit

TimeToWait(ts, t) == Head(ts) - (t - TicksPerSecond)

ReleaseLockOff ==
    /\ lockOwner' = 0
    /\ lockWaiters' = lockWaiters

\* __aexit__ of "async with self._lock": the lock passes to the first waiter.
ReleaseLock ==
    IF lockWaiters = <<>>
    THEN /\ lockOwner' = 0
         /\ lockWaiters' = lockWaiters
    ELSE /\ lockOwner' = Head(lockWaiters)
         /\ lockWaiters' = Tail(lockWaiters)

AcquireReturnsOff(c) ==
    /\ callerPc' = [callerPc EXCEPT ![c] = "admitted"]
    /\ lockOwner' = c
    /\ lockWaiters' = lockWaiters

\* "break" out of the loop and out of "async with self._lock": acquire()
\* returns to its caller with the lock released.
AcquireReturns(c) ==
    /\ callerPc' = [callerPc EXCEPT ![c] = "admitted"]
    /\ ReleaseLock

\* One pass of the "while True" body, run by the caller c that holds the lock
\* (or takes the free lock): evict, then admit and leave, or sleep and recheck.
LoopBody(c) ==
    LET ts == Evict(timestamps, now) IN
    IF HasCapacity(ts)
    THEN /\ timestamps' = Append(ts, now)
         /\ admitLog' = [admitLog EXCEPT ![now] = @ + 1]
         /\ wakeAt' = wakeAt
         /\ AcquireReturns(c)
    ELSE /\ timestamps' = ts
         /\ admitLog' = admitLog
         /\ lockOwner' = c
         /\ lockWaiters' = lockWaiters
         /\ IF TimeToWait(ts, now) > 0
            THEN /\ callerPc' = [callerPc EXCEPT ![c] = "sleeping"]
                 /\ wakeAt' = [wakeAt EXCEPT ![c] = now + TimeToWait(ts, now)]
            ELSE /\ callerPc' = [callerPc EXCEPT ![c] = "locked"]
                 /\ wakeAt' = wakeAt

\* A caller enters acquire(): a free lock is taken without suspending and the
\* loop body runs at once; otherwise the caller queues on the lock.
Acquire(c) ==
    /\ callerPc[c] = "idle"
    /\ now' = now
    /\ IF lockOwner = 0 /\ lockWaiters = <<>>
       THEN LoopBody(c)
       ELSE /\ callerPc' = [callerPc EXCEPT ![c] = "waitlock"]
            /\ lockWaiters' = Append(lockWaiters, c)
            /\ UNCHANGED <<timestamps, lockOwner, wakeAt, admitLog>>
    /\ UNCHANGED nonLimVars

\* A caller that was handed the lock resumes and runs the loop body.
LockGranted(c) ==
    /\ callerPc[c] \in {"waitlock", "locked"}
    /\ lockOwner = c
    /\ now' = now
    /\ LoopBody(c)
    /\ UNCHANGED nonLimVars

\* asyncio.sleep(time_to_wait) ends; the caller, still holding the lock,
\* rechecks the window.
Wake(c) ==
    /\ callerPc[c] = "sleeping"
    /\ now >= wakeAt[c]
    /\ now' = now
    /\ LoopBody(c)
    /\ UNCHANGED nonLimVars

\* The admitted caller performs its request and comes back for another slot.
Finish(c) ==
    /\ callerPc[c] = "admitted"
    /\ callerPc' = [callerPc EXCEPT ![c] = "idle"]
    /\ UNCHANGED <<now, timestamps, lockOwner, lockWaiters, wakeAt, admitLog>>
    /\ UNCHANGED nonLimVars

\* The monotonic clock advances.
Tick ==
    /\ now < MaxTime
    /\ now' = now + 1
    /\ UNCHANGED <<timestamps, lockOwner, lockWaiters, callerPc, wakeAt, admitLog>>
    /\ UNCHANGED nonLimVars

(***************************************************************************)
(* Signed Exchange Client: what a caller does once acquire() has returned  *)
(***************************************************************************)
clientFrame == <<now, timestamps, lockOwner, lockWaiters, wakeAt, admitLog>>

\* mexc_call with a known url_mode, create_plan_order, get_market_ticker,
\* get_all_market_tickers, _signed_request: one HTTP request, then return.
ClientRequest(c) ==
    /\ callerPc[c] = "admitted"
    /\ sent[c] = 0
    /\ requests' = requests + 1
    /\ sent' = sent
    /\ callerPc' = [callerPc EXCEPT ![c] = "idle"]
    /\ UNCHANGED <<clientFrame, nonClientVars>>

\* mexc_call with an unknown url_mode: logs and returns without a request.
ClientNoRequest(c) ==
    /\ callerPc[c] = "admitted"
    /\ sent[c] = 0
    /\ callerPc' = [callerPc EXCEPT ![c] = "idle"]
    /\ UNCHANGED <<clientFrame, clientVars, nonClientVars>>

\* get_open_positions: one pass of "for auth_token in auth_tokens", a GET for
\* the next account; the function returns after the last account.
ClientPositionsRequest(c) ==
    /\ callerPc[c] = "admitted"
    /\ sent[c] < NumAccounts
    /\ requests' = requests + 1
    /\ IF sent[c] + 1 = NumAccounts
       THEN /\ sent' = [sent EXCEPT ![c] = 0]
            /\ callerPc' = [callerPc EXCEPT ![c] = "idle"]
       ELSE /\ sent' = [sent EXCEPT ![c] = sent[c] + 1]
            /\ callerPc' = callerPc
    /\ UNCHANGED <<clientFrame, nonClientVars>>

(***************************************************************************)
(* Configuration, tokens, candidates                                       *)
(***************************************************************************)
Symbols == {"ABC_USDT", "XYZ_USDT"}

PosIds == {1, 2}

Min(a, b) == IF a <= b THEN a ELSE b

RECURSIVE Pow10(_)
Pow10(n) == IF n <= 0 THEN 1 ELSE 10 * Pow10(n - 1)

RECURSIVE Pow2(_)
Pow2(n) == IF n <= 0 THEN 1 ELSE 2 * Pow2(n - 1)

\* Python round() of n/d to an integer: nearest, ties to even.
Round(n, d) ==
    LET q == n \div d
        r == n % d
    IN  IF 2 * r < d THEN q
        ELSE IF 2 * r > d THEN q + 1
        ELSE IF q % 2 = 0 THEN q ELSE q + 1

(***************************************************************************)
(* Python floats.  A float is m * 2^e with a significand of at most        *)
(* MantissaBits bits (binary64 has 53), kept in canonical form (m odd, or  *)
(* m = 0 and e = 0); every operation rounds its exact result to the        *)
(* nearest float, ties to even, as IEEE 754 does.  Exponent range is not   *)
(* limited: the prices and volumes here are far from overflow/underflow.   *)
(***************************************************************************)
Zero == [m |-> 0, e |-> 0]

RECURSIVE Canon(_, _)
Canon(m, e) ==
    IF m = 0 THEN Zero
    ELSE IF m % 2 = 0 THEN Canon(m \div 2, e + 1)
    ELSE [m |-> m, e |-> e]

\* The float nearest to (n / d) * 2^e, for integers n >= 0 and d > 0.
RECURSIVE FlRat(_, _, _)
FlRat(n, d, e) ==
    IF n = 0 THEN Zero
    ELSE IF n \div Pow2(MantissaBits) >= d THEN FlRat(n, 2 * d, e + 1)
    ELSE IF n \div Pow2(MantissaBits - 1) < d THEN FlRat(2 * n, d, e - 1)
    ELSE Canon(Round(n, d), e)

\* float(n) for an int n
FromInt(n) == FlRat(n, 1, 0)

\* The float a decimal literal n * 10^-s denotes; also 10 ** (-s) for n = 1.
Dec(n, s) == FlRat(n, Pow10(s), 0)

FMul(a, b) == FlRat(a.m * b.m, 1, a.e + b.e)

FDiv(a, b) == FlRat(a.m, b.m, a.e - b.e)

FAdd(a, b) ==
    LET e == Min(a.e, b.e)
    IN  FlRat(a.m * Pow2(a.e - e) + b.m * Pow2(b.e - e), 1, e)

\* a - b for a >= b
FSub(a, b) ==
    LET e == Min(a.e, b.e)
    IN  FlRat(a.m * Pow2(a.e - e) - b.m * Pow2(b.e - e), 1, e)

FLt(a, b) ==
    LET e == Min(a.e, b.e)
    IN  a.m * Pow2(a.e - e) < b.m * Pow2(b.e - e)

FLe(a, b) == ~FLt(b, a)

\* math.floor(x): an int
Floor(x) == IF x.e >= 0 THEN x.m * Pow2(x.e) ELSE x.m \div Pow2(-x.e)

\* The integer nearest to x * 10^s (ties to even).
Scaled(x, s) ==
    IF x.e >= 0 THEN x.m * Pow2(x.e) * Pow10(s)
    ELSE Round(x.m * Pow10(s), Pow2(-x.e))

\* round(x, s): the float nearest to the s-digit decimal nearest to x.
PyRound(x, s) == Dec(Scaled(x, s), s)

\* tokens_info entries as main() builds them from the contract details
\* (max_margin 0 stands for None).
Token(s) ==
    IF s = "ABC_USDT"
    THEN [maxLeverage |-> 20, contractSize |-> FromInt(1), priceScale |-> 2,
          volScale |-> 0, max_margin |-> 0]
    ELSE [maxLeverage |-> 5, contractSize |-> FromInt(10), priceScale |-> 2,
          volScale |-> 1, max_margin |-> 20]

\* The exchange's positions: symbol and positionType (1 = long, 2 = short).
PosCfg(p) ==
    IF p = 1
    THEN [symbol |-> "ABC_USDT", positionType |-> 1, openAvgPrice |-> 100, leverage |-> 10]
    ELSE [symbol |-> "XYZ_USDT", positionType |-> 2, openAvgPrice |-> 100, leverage |-> 10]

\* ticker['lastPrice'] values
Prices == {98, 99, 100, 101, 102}

\* A ticker item without the key 'lastPrice'.
NoLastPrice == -1

\* Order candidates the Signal Source emits (unknown symbols included).
Candidates ==
    { [mexc_symbol |-> "ABC_USDT", percent |-> 2, limit_price |-> 2],
      [mexc_symbol |-> "ABC_USDT", percent |-> -2, limit_price |-> 2],
      [mexc_symbol |-> "ABC_USDT", percent |-> 2, limit_price |-> 1000],
      [mexc_symbol |-> "XYZ_USDT", percent |-> 2, limit_price |-> 2],
      [mexc_symbol |-> "NEW_USDT", percent |-> 2, limit_price |-> 2] }

NoOrder == [mexc_symbol |-> "NONE", percent |-> 0, limit_price |-> 0]

NoPayload ==
    [side |-> 0, leverage |-> 0, vol |-> Zero, volInt |-> FALSE, type |-> 0, price |-> Zero]

\* settings.json as the engine reads it.
BaseSettings ==
    [MEXC_AUTH_TOKEN |-> TRUE, max_margin |-> 50, leverage |-> 10,
     IS_HEDGE_MODE |-> TRUE, USE_COOLDOWN |-> TRUE, ENTRY_ORDER_TYPE |-> "limit",
     EXCHANGE_STOP_LOSS_PERCENT |-> 5, EXCHANGE_TAKE_PROFIT_PERCENT |-> 5,
     COOLDOWN_SECONDS |-> CooldownSeconds,
     USE_PYRAMIDING |-> TRUE,
     PYRAMIDING_CONFIG |-> [pnl_threshold_percent |-> 10, max_entries |-> MaxEntries,
                            add_margin_amount |-> 20],
     USE_SCALING_OUT |-> TRUE,
     SCALING_OUT_TARGETS |-> << [pnl_percent |-> 20, num |-> 1, den |-> 2],
                                [pnl_percent |-> 10, num |-> 1, den |-> 2] >>,
     USE_TRAILING_STOP |-> TRUE,
     TRAILING_ACTIVATION_PERCENT |-> 5,
     TRAILING_PERMILLE |-> 5,
     MAX_POSITION_HOURS |-> 24,
     LOSS_COOLDOWN_SECONDS |-> LossCooldown,
     TIMEOUT_COOLDOWN_SECONDS |-> TimeoutCooldown]

EngineSettings ==
    { [BaseSettings EXCEPT !.MEXC_AUTH_TOKEN = a, !.IS_HEDGE_MODE = h,
                           !.USE_COOLDOWN = u, !.ENTRY_ORDER_TYPE = t,
                           !.EXCHANGE_STOP_LOSS_PERCENT = sl,
                           !.EXCHANGE_TAKE_PROFIT_PERCENT = tp] :
        a \in BOOLEAN, h \in BOOLEAN, u \in BOOLEAN, t \in {"limit", "market"},
        sl \in {0, 5}, tp \in {0, 5} }

MonitorSettings ==
    { [BaseSettings EXCEPT !.USE_PYRAMIDING = py, !.USE_SCALING_OUT = so,
                           !.EXCHANGE_STOP_LOSS_PERCENT = sl,
                           !.USE_TRAILING_STOP = tr, !.MAX_POSITION_HOURS = mh] :
        py \in BOOLEAN, so \in BOOLEAN, sl \in {0, 5}, tr \in BOOLEAN, mh \in {0, 24} }

PyramidingSettings ==
    [BaseSettings EXCEPT !.USE_SCALING_OUT = FALSE, !.EXCHANGE_STOP_LOSS_PERCENT = 0,
                         !.USE_TRAILING_STOP = FALSE, !.MAX_POSITION_HOURS = 0]

\* Configurations explored with both positions open.
TwoPositionSettings ==
    { c \in MonitorSettings : ~c.USE_SCALING_OUT /\ ~c.USE_TRAILING_STOP }

\* The positions open on the exchange when the monitor starts.
OpenPositions ==
    { [p \in PosIds |-> IF p \in open THEN InitVol ELSE 0] : open \in (SUBSET PosIds) \ {{}} }

(***************************************************************************)
(* Exchange responses                                                      *)
(***************************************************************************)
LevResp == {"OK", "E2019", "E600", "EOTHER"}

CreateResp == {"OK_ID", "OK_NOID", "FAIL"}

ok(r) == r = "OK"

is_2019(r) == r = "E2019"

is_600(r) == r = "E600"

\* change_leverage: with an open position one request by positionId; without,
\* one request by symbol, repeated once with the flipped openType on code 600.
change_leverage(hasPos, r1, r2) ==
    IF hasPos THEN r1
    ELSE IF r1 = "E600" THEN r2
    ELSE r1

LevResults == { change_leverage(hp, r1, r2) : hp \in BOOLEAN, r1 \in LevResp, r2 \in LevResp }

\* positionId the exchange reports for (symbol, side opened), 0 for none.
MatchingPositions(symbol, side) ==
    { p \in PosIds : /\ positions[p] > 0
                     /\ PosCfg(p).symbol = symbol
                     /\ PosCfg(p).positionType = (IF side = 1 THEN 1 ELSE 2) }

(***************************************************************************)
(* prepare_payload                                                         *)
(***************************************************************************)
\* limit_price and tok.contractSize are floats, max_margin and leverage ints;
\* a scale below 0 stands for None.  volInt tells an int volume from a float.
prepare_payload(limit_price, side, leverage, max_margin, tok) ==
    IF ~FLt(Zero, limit_price) THEN NoPayload
    ELSE
      LET margin == IF tok.max_margin > 0
                    THEN Min(max_margin, tok.max_margin)
                    ELSE max_margin
          contract_size == IF tok.contractSize = Zero THEN FromInt(1)
                           ELSE tok.contractSize
          raw_vol == FDiv(FDiv(FromInt(margin * leverage), limit_price), contract_size)
          step == IF tok.volScale = 0 THEN FromInt(1) ELSE Dec(1, tok.volScale)
          steps == Floor(FDiv(raw_vol, step))
          final_volume == IF tok.volScale = 0 THEN Canon(steps, 0)
                          ELSE FMul(FromInt(steps), step)
          final_price == PyRound(limit_price, tok.priceScale)
      IN  IF tok.priceScale < 0 \/ tok.volScale < 0 THEN NoPayload
          ELSE IF FLt(final_volume, step) THEN NoPayload
          ELSE [side |-> side, leverage |-> leverage, vol |-> final_volume,
                volInt |-> (tok.volScale = 0), type |-> 1, price |-> final_price]

\* handle_order lines 167-175: the payload prepare_payload returns for each
\* candidate of a known symbol; max_margin and leverage are the same in every
\* settings.json explored.
EntryPayload ==
    [c \in {x \in Candidates : x.mexc_symbol \in Symbols} |->
        prepare_payload(FromInt(c.limit_price), IF c.percent > 0 THEN 1 ELSE 3,
                        Min(BaseSettings.leverage, Token(c.mexc_symbol).maxLeverage),
                        BaseSettings.max_margin, Token(c.mexc_symbol))]

\* position_monitor lines 165-169: the payload of a pyramiding add-on for each
\* position and ticker price.
AddonPayload ==
    [p \in PosIds, tick \in Prices |->
        prepare_payload(FromInt(tick), IF PosCfg(p).positionType = 1 THEN 1 ELSE 3,
                        PosCfg(p).leverage,
                        BaseSettings.PYRAMIDING_CONFIG.add_margin_amount,
                        Token(PosCfg(p).symbol))]

(***************************************************************************)
(* Price normalisation and the protective trigger prices                   *)
(***************************************************************************)
adjust_price_to_tick_size(price, price_scale) ==
    IF price_scale < 0 THEN price
    ELSE
      LET tick_size == IF price_scale = 0 THEN FromInt(1) ELSE Dec(1, price_scale)
          steps == Floor(FDiv(price, tick_size))
          adjusted_price == IF price_scale = 0 THEN Canon(steps, 0)
                            ELSE FMul(FromInt(steps), tick_size)
      IN  PyRound(adjusted_price, price_scale)

\* finalize_order_and_setup_sl_tp line 277: 4 closes a long, 2 closes a short.
close_side(side) == IF side = 1 THEN 4 ELSE 2

\* pct / 100
Percent(pct) == FDiv(FromInt(pct), FromInt(100))

\* limit_price * (1 + tp_pct / 100) for a long, limit_price * (1 - tp_pct / 100)
\* for a short.
raw_tp_price(limit_price, side, tp_pct) ==
    FMul(limit_price, IF side = 1 THEN FAdd(FromInt(1), Percent(tp_pct))
                      ELSE FSub(FromInt(1), Percent(tp_pct)))

raw_sl_price(limit_price, side, sl_pct) ==
    FMul(limit_price, IF side = 1 THEN FSub(FromInt(1), Percent(sl_pct))
                      ELSE FAdd(FromInt(1), Percent(sl_pct)))

tp_price(limit_price, side, tp_pct, price_scale) ==
    IF side = 1
    THEN adjust_price_to_tick_size(raw_tp_price(limit_price, side, tp_pct), price_scale)
    ELSE PyRound(raw_tp_price(limit_price, side, tp_pct), price_scale)

sl_price(limit_price, side, sl_pct, price_scale) ==
    IF side = 1
    THEN adjust_price_to_tick_size(raw_sl_price(limit_price, side, sl_pct), price_scale)
    ELSE PyRound(raw_sl_price(limit_price, side, sl_pct), price_scale)

\* Arguments the computations are applied to.
Scales == 0..MaxScale

PayMargins == {1, 3, 50}

PayLeverages == {1, 10}

LimitPrices == {FromInt(2), FromInt(3), FromInt(10), Dec(15, 1), Dec(126, 2)}

ContractSizes == {FromInt(1), FromInt(10)}

TokenCaps == {0, 20}

Percents == {0, 2}

PayTokens ==
    { [maxLeverage |-> 20, contractSize |-> cs, priceScale |-> ps, volScale |-> vs,
       max_margin |-> cap] :
         cs \in ContractSizes, ps \in Scales, vs \in Scales, cap \in TokenCaps }

NoCalc ==
    [pc |-> "idle", limit_price |-> Zero, side |-> 0, leverage |-> 0, max_margin |-> 0,
     tok |-> Token("ABC_USDT"), tp_pct |-> 0, sl_pct |-> 0,
     pay |-> NoPayload, tp |-> Zero, sl |-> Zero, close_side |-> 0]

CalcArgs ==
    { [NoCalc EXCEPT !.pc = "args", !.limit_price = lp, !.side = sd, !.leverage = lv,
                     !.max_margin = mm, !.tok = tk, !.tp_pct = pct, !.sl_pct = pct] :
         lp \in LimitPrices, sd \in {1, 3}, lv \in PayLeverages, mm \in PayMargins,
         tk \in PayTokens, pct \in Percents }

calcFrame == <<limVars, cfgVars, storeVars, positions, order_in_process, falls, engVars,
               monVars, riskVars, aged, monHistVars, clientVars>>

\* handle_order line 175: the payload of the entry order.
CalcPayload ==
    /\ calc.pc = "args"
    /\ calc' = [calc EXCEPT
                  !.pc = "payload",
                  !.pay = prepare_payload(calc.limit_price, calc.side, calc.leverage,
                                          calc.max_margin, calc.tok)]
    /\ UNCHANGED calcFrame

\* finalize_order_and_setup_sl_tp lines 273-303: the trigger prices of the
\* take-profit and stop-loss plan orders.
CalcTriggers ==
    /\ calc.pc = "payload"
    /\ calc.pay # NoPayload
    /\ calc.tp_pct # 0 \/ calc.sl_pct # 0
    /\ calc' = [calc EXCEPT
                  !.pc = "done",
                  !.close_side = close_side(calc.side),
                  !.tp = IF calc.tp_pct # 0
                         THEN tp_price(calc.limit_price, calc.side, calc.tp_pct,
                                       calc.tok.priceScale)
                         ELSE Zero,
                  !.sl = IF calc.sl_pct # 0
                         THEN sl_price(calc.limit_price, calc.side, calc.sl_pct,
                                       calc.tok.priceScale)
                         ELSE Zero]
    /\ UNCHANGED calcFrame

(***************************************************************************)
(* close_position                                                          *)
(***************************************************************************)
\* The arguments of one call: position['holdVol'] and close_vol ("given" is
\* false when close_vol is None).
CloseArgs ==
    { [pc |-> "args", hold_vol |-> h, given |-> c[1], close_vol |-> c[2],
       sent |-> FALSE, vol |-> 0, ret |-> FALSE] :
         h \in 0..MaxHoldVol,
         c \in {<<FALSE, 0>>} \cup ({TRUE} \X (-1..(MaxHoldVol + 1))) }

CapToHeldOff(v, hold_vol) == v

\* close_position lines 51-53.
CapToHeld(v, hold_vol) == IF v > hold_vol THEN hold_vol ELSE v

\* close_position lines 49-53: the local vol_to_close before the "<= 0" test.
close_volume(hold_vol, given, close_vol) ==
    CapToHeld(IF given THEN close_vol ELSE hold_vol, hold_vol)

\* close_position lines 48-65: up to "return False" or the awaited mexc_call.
CloseSubmit ==
    /\ calc.pc = "args"
    /\ LET v == close_volume(calc.hold_vol, calc.given, calc.close_vol)
       IN  calc' = IF v <= 0
                   THEN [calc EXCEPT !.pc = "done", !.ret = FALSE]
                   ELSE [calc EXCEPT !.pc = "sent", !.sent = TRUE, !.vol = v]
    /\ UNCHANGED calcFrame

\* close_position lines 65-72: mexc_call answers.
CloseAnswer ==
    /\ calc.pc = "sent"
    /\ \E success \in BOOLEAN : calc' = [calc EXCEPT !.pc = "done", !.ret = success]
    /\ UNCHANGED calcFrame

(***************************************************************************)
(* Order Processing Engine: the state the start_process task works on      *)
(***************************************************************************)
NoHist ==
    [symbol |-> "NONE", cdAtDequeue |-> FALSE, cdAtCheck |-> FALSE, admitted |-> FALSE,
     called |-> FALSE, oneway |-> 0, onewayRes |-> "NONE", created |-> FALSE,
     outcome |-> "none", exitFlag |-> FALSE, exitCooldown |-> FALSE,
     rejected |-> "none", exitLong |-> "NONE", exitShort |-> "NONE",
     createRes |-> "NONE", plans |-> {}]

Eng ==
    [pc |-> engPc, order |-> order, token |-> token, long_res |-> long_res,
     short_res |-> short_res, payload |-> payload, pos_id |-> pos_id, polls |-> polls,
     hist |-> hist, accepted |-> accepted, falls |-> falls, flags |-> order_in_process,
     cooldown |-> cooldown, initial_spread |-> initial_spread, unfinished |-> unfinished]

Commit(e) ==
    /\ engPc' = e.pc
    /\ order' = e.order
    /\ token' = e.token
    /\ long_res' = e.long_res
    /\ short_res' = e.short_res
    /\ payload' = e.payload
    /\ pos_id' = e.pos_id
    /\ polls' = e.polls
    /\ hist' = e.hist
    /\ accepted' = e.accepted
    /\ falls' = e.falls
    /\ order_in_process' = e.flags
    /\ cooldown' = e.cooldown
    /\ initial_spread' = e.initial_spread
    /\ unfinished' = e.unfinished

\* token['order_in_process'] = v, counting the true -> false transitions.
SetFlag(e, s, v) ==
    [e EXCEPT !.flags[s] = v,
              !.falls[s] = @ + (IF e.flags[s] /\ ~v THEN 1 ELSE 0)]

Called(e) == [e EXCEPT !.hist.called = TRUE]

HandleOrderPcs ==
    {"lev_long", "lev_short", "cancel_orders", "cancel_plan", "retry_long",
     "retry_short", "oneway", "create", "wait_fill", "fetch_pos", "plan_orders"}

StartProcessFinallyOff(e) ==
    LET e1 == IF e.token # "NONE" THEN SetFlag(e, e.token, FALSE) ELSE e
    IN  [e1 EXCEPT !.pc = "get", !.order = NoOrder,
                   !.token = "NONE", !.long_res = "NONE", !.short_res = "NONE",
                   !.payload = NoPayload, !.pos_id = 0, !.polls = 0]

\* start_process, "finally": clear the flag of the bound token, task_done().
StartProcessFinally(e) ==
    LET e1 == IF e.token # "NONE" THEN SetFlag(e, e.token, FALSE) ELSE e
    IN  [e1 EXCEPT !.unfinished = @ - 1, !.pc = "get", !.order = NoOrder,
                   !.token = "NONE", !.long_res = "NONE", !.short_res = "NONE",
                   !.payload = NoPayload, !.pos_id = 0, !.polls = 0]

\* A candidate rejected by start_process ("continue").
Skip(e, cause) ==
    StartProcessFinally([e EXCEPT !.hist.outcome = "dropped", !.hist.rejected = cause])

HandleOrderFinallyOff(e) == e

\* handle_order, "finally".
HandleOrderFinally(e) == SetFlag(e, e.token, FALSE)

\* handle_order returns (or unwinds) with the given outcome; control is back in
\* start_process, whose own "finally" runs without suspension.
Return(e, outcome) ==
    LET e1 == HandleOrderFinally(e)
    IN  [e1 EXCEPT !.hist.outcome = outcome,
                   !.hist.exitFlag = e1.flags[e.token],
                   !.hist.exitCooldown = e1.cooldown[e.token] # 0,
                   !.hist.exitLong = e.long_res,
                   !.hist.exitShort = e.short_res]

Leave(e, outcome) == StartProcessFinally(Return(e, outcome))

\* handle_order lines 199-206: initial spread, success cooldown.
Complete(e, outcome) ==
    LET e1 == IF e.pos_id # 0
              THEN [e EXCEPT !.initial_spread[e.pos_id] = TRUE]
              ELSE e
        e2 == IF settings.USE_COOLDOWN
              THEN [e1 EXCEPT !.cooldown[e.token] = settings.COOLDOWN_SECONDS]
              ELSE e1
    IN  Leave(e2, outcome)

\* finalize_order_and_setup_sl_tp lines 279-316: the payloads handed to
\* create_plan_order, without their trigger prices.
PlanOrders(e) ==
    LET plan(kind) ==
            [kind |-> kind, symbol |-> e.token, vol |-> e.payload.vol,
             side |-> close_side(e.payload.side), positionId |-> e.pos_id,
             reduceOnly |-> TRUE]
    IN  { plan("tp") : x \in IF settings.EXCHANGE_TAKE_PROFIT_PERCENT # 0 THEN {1} ELSE {} }
          \cup
        { plan("sl") : x \in IF settings.EXCHANGE_STOP_LOSS_PERCENT # 0 THEN {1} ELSE {} }

ProtectOff(e) == [e EXCEPT !.pc = "plan_orders", !.hist.plans = PlanOrders(e)]

\* finalize_order_and_setup_sl_tp lines 269-326: the protective plan orders.
Protect(e) ==
    IF /\ e.pos_id # 0
       /\ e.payload.vol # Zero
       /\ (settings.EXCHANGE_STOP_LOSS_PERCENT # 0
             \/ settings.EXCHANGE_TAKE_PROFIT_PERCENT # 0)
    THEN [e EXCEPT !.pc = "plan_orders", !.hist.plans = PlanOrders(e)]
    ELSE Complete(e, "placed")

NextPollOff(n) == 1 - n

\* One more pass of a polling loop: "for _ in range(attempts)", or the clock
\* moving on towards the deadline.
NextPoll(n) == n + 1

WaitPolls == IF settings.ENTRY_ORDER_TYPE = "market" THEN MaxPolls ELSE MaxPolls + 1

FetchAttempts == IF settings.ENTRY_ORDER_TYPE = "market" THEN MaxPolls + 1 ELSE MaxPolls

\* handle_order lines 172-184: side, payload, create-order request.
PlaceOrder(e) ==
    LET p == EntryPayload[e.order]
    IN  IF p = NoPayload THEN Leave(e, "payload_rejected")
        ELSE [Called(e) EXCEPT
                 !.payload = IF settings.ENTRY_ORDER_TYPE = "market"
                             THEN [p EXCEPT !.type = 5] ELSE p,
                 !.hist.created = TRUE,
                 !.pc = "create"]

LeverageFailedOff(e) == Leave(e, "lev_fail")

\* handle_order lines 158-160 and 163-165: cooldown of 60 s, return.
LeverageFailed(e) == Leave([e EXCEPT !.cooldown[e.token] = FailCooldown], "lev_fail")

\* handle_order line 154: both sides answered 600.
WrongModeBoth(l, s) == is_600(l) /\ is_600(s)

\* handle_order lines 150-165: the verdict once no retry is left.
AfterRetry(e) ==
    IF ok(e.long_res) /\ ok(e.short_res) THEN PlaceOrder(e)
    ELSE IF WrongModeBoth(e.long_res, e.short_res)
    THEN [Called(e) EXCEPT !.hist.oneway = @ + 1, !.pc = "oneway"]
    ELSE LeverageFailed(e)

\* handle_order lines 136-148 after both first answers.
AfterFirstPair(e) ==
    IF ok(e.long_res) /\ ok(e.short_res) THEN PlaceOrder(e)
    ELSE IF is_2019(e.long_res) \/ is_2019(e.short_res)
    THEN [e EXCEPT !.pc = "cancel_orders"]
    ELSE AfterRetry(e)

SetInProcessOff(e) == [e EXCEPT !.accepted[e.token] = @ + 1]

\* handle_order line 111.
SetInProcess(e) == SetFlag([e EXCEPT !.accepted[e.token] = @ + 1], e.token, TRUE)

\* handle_order lines 110-135 up to the first suspension.
HandleOrderBegin(e) ==
    LET e1 == SetInProcess([e EXCEPT !.hist.admitted = TRUE])
    IN  IF ~settings.MEXC_AUTH_TOKEN THEN Leave(e1, "no_settings")
        ELSE IF settings.IS_HEDGE_MODE THEN [Called(e1) EXCEPT !.pc = "lev_long"]
        ELSE PlaceOrder(e1)

AdmitOff(e) == HandleOrderBegin(e)

\* start_process lines 348-352.
Admit(e) ==
    IF is_ignored[e.token] THEN Skip(e, "ignored")
    ELSE IF e.flags[e.token] THEN Skip(e, "in_process")
    ELSE HandleOrderBegin(e)

existsOff(store, s) == FALSE

\* redis_client.exists(f"cooldown:{symbol}")
exists(store, s) == store[s] # 0

engFrame == <<limVars, cfgVars, positions, produced, monVars, riskVars, aged, monHistVars,
              clientVars, calc>>

\* order = await orders_queue.get()
EngGet ==
    /\ engPc = "get"
    /\ orders_queue # <<>>
    /\ LET o == Head(orders_queue)
           s == o.mexc_symbol
       IN  Commit([Eng EXCEPT
                     !.pc = "read_settings",
                     !.order = o,
                     !.hist = [NoHist EXCEPT
                                 !.symbol = s,
                                 !.cdAtDequeue = (s \in Symbols /\ cooldown[s] # 0)]])
    /\ orders_queue' = Tail(orders_queue)
    /\ UNCHANGED engFrame

\* settings = await read_file_async(...); symbol lookup; the cooldown test is
\* only made when USE_COOLDOWN is set.
EngReadSettings ==
    /\ engPc = "read_settings"
    /\ IF order.mexc_symbol \notin Symbols
       THEN Commit(Skip(Eng, "unknown"))
       ELSE LET e == [Eng EXCEPT !.token = order.mexc_symbol]
            IN  IF settings.USE_COOLDOWN
                THEN Commit([e EXCEPT !.pc = "cooldown_check"])
                ELSE Commit(Admit(e))
    /\ UNCHANGED <<engFrame, orders_queue>>

\* await redis_client.exists(cooldown key) answers.
EngCooldownCheck ==
    /\ engPc = "cooldown_check"
    /\ LET e == [Eng EXCEPT !.hist.cdAtCheck = (cooldown[token] # 0)]
       IN  IF exists(cooldown, token)
           THEN Commit(Skip(e, "cooldown"))
           ELSE Commit(Admit(e))
    /\ UNCHANGED <<engFrame, orders_queue>>

\* change_leverage(..., position_type=1) answers; the short side is requested.
EngLevLong ==
    /\ engPc = "lev_long"
    /\ \E r \in LevResults :
          Commit([Eng EXCEPT !.long_res = r, !.pc = "lev_short"])
    /\ UNCHANGED <<engFrame, orders_queue>>

\* change_leverage(..., position_type=2) answers.
EngLevShort ==
    /\ engPc = "lev_short"
    /\ \E r \in LevResults :
          Commit(AfterFirstPair([Eng EXCEPT !.short_res = r]))
    /\ UNCHANGED <<engFrame, orders_queue>>

\* cancel_all_orders answers; cancel_all_plan_orders is requested.
EngCancelOrders ==
    /\ engPc = "cancel_orders"
    /\ Commit([Eng EXCEPT !.pc = "cancel_plan"])
    /\ UNCHANGED <<engFrame, orders_queue>>

NeedsRetryOff(r) == TRUE

\* handle_order lines 145 and 147: "if not ok(...)".
NeedsRetry(r) == ~ok(r)

\* cancel_all_plan_orders answers, sleep(0.25), then the failed side is retried.
EngCancelPlan ==
    /\ engPc = "cancel_plan"
    /\ Commit([Eng EXCEPT !.pc = IF NeedsRetry(long_res) THEN "retry_long"
                                 ELSE "retry_short"])
    /\ UNCHANGED <<engFrame, orders_queue>>

EngRetryLong ==
    /\ engPc = "retry_long"
    /\ \E r \in LevResults :
          LET e == [Eng EXCEPT !.long_res = r]
          IN  IF NeedsRetry(short_res)
              THEN Commit([e EXCEPT !.pc = "retry_short"])
              ELSE Commit(AfterRetry(e))
    /\ UNCHANGED <<engFrame, orders_queue>>

EngRetryShort ==
    /\ engPc = "retry_short"
    /\ \E r \in LevResults :
          Commit(AfterRetry([Eng EXCEPT !.short_res = r]))
    /\ UNCHANGED <<engFrame, orders_queue>>

OneWayOkOff(r) == TRUE

\* handle_order line 157.
OneWayOk(r) == ok(r)

\* The one-way change_leverage answers (lines 156-161).
EngOneWay ==
    /\ engPc = "oneway"
    /\ \E r \in LevResults :
          LET e == [Eng EXCEPT !.hist.onewayRes = r]
          IN  IF OneWayOk(r)
              THEN Commit(PlaceOrder(e))
              ELSE Commit(LeverageFailed(e))
    /\ UNCHANGED <<engFrame, orders_queue>>

\* The create-order request answers: handle_order_create and the head of
\* finalize_order_and_setup_sl_tp (lines 236-267).
EngCreate ==
    /\ engPc = "create"
    /\ \E res \in CreateResp :
          LET e == [Eng EXCEPT !.hist.createRes = res]
          IN  IF res = "FAIL"
              THEN Commit(Complete([e EXCEPT !.cooldown[token] = FailCooldown], "create_fail"))
              ELSE Commit([e EXCEPT !.polls = 0,
                                    !.pc = IF res = "OK_ID" THEN "wait_fill" ELSE "fetch_pos"])
    /\ UNCHANGED <<engFrame, orders_queue>>

\* wait_fill_and_position_id: one get_order_by_id answer.
EngWaitFill ==
    /\ engPc = "wait_fill"
    /\ \E p \in {0} \cup MatchingPositions(token, payload.side) :
          IF p # 0
          THEN Commit(Protect([Eng EXCEPT !.pos_id = p]))
          ELSE IF NextPoll(polls) < WaitPolls
          THEN Commit([Eng EXCEPT !.polls = NextPoll(polls)])
          ELSE Commit([Eng EXCEPT !.polls = 0, !.pc = "fetch_pos"])
    /\ UNCHANGED <<engFrame, orders_queue>>

\* fetch_position_id_for_symbol: one get_open_positions answer.
EngFetchPos ==
    /\ engPc = "fetch_pos"
    /\ \E p \in {0} \cup MatchingPositions(token, payload.side) :
          IF p # 0
          THEN Commit(Protect([Eng EXCEPT !.pos_id = p]))
          ELSE IF NextPoll(polls) < FetchAttempts
          THEN Commit([Eng EXCEPT !.polls = NextPoll(polls)])
          ELSE Commit(Protect([Eng EXCEPT !.pos_id = 0]))
    /\ UNCHANGED <<engFrame, orders_queue>>

\* asyncio.gather of the create_plan_order calls returns.
EngPlanOrders ==
    /\ engPc = "plan_orders"
    /\ Commit(Complete(Eng, "placed"))
    /\ UNCHANGED <<engFrame, orders_queue>>

\* An awaited exchange call raises inside handle_order ("except Exception").
EngRaise ==
    /\ engPc \in HandleOrderPcs \ {"plan_orders"}
    /\ Commit(Leave(Eng, "exception"))
    /\ UNCHANGED <<engFrame, orders_queue>>

\* An await of start_process itself raises: "except Exception", sleep(1).
EngRaiseOuter ==
    /\ engPc \in {"read_settings", "cooldown_check"}
    /\ Commit([Eng EXCEPT !.pc = "sleep_err", !.hist.outcome = "error"])
    /\ UNCHANGED <<engFrame, orders_queue>>

EngSleepDone ==
    /\ engPc = "sleep_err"
    /\ Commit(StartProcessFinally(Eng))
    /\ UNCHANGED <<engFrame, orders_queue>>

\* The task is cancelled at its current suspension point.
EngCancel ==
    /\ engPc # "stopped"
    /\ IF engPc \in HandleOrderPcs
       THEN Commit([Leave(Eng, "cancelled") EXCEPT !.pc = "stopped"])
       ELSE IF engPc = "get"
       THEN Commit([Eng EXCEPT !.pc = "stopped"])
       ELSE Commit([StartProcessFinally(Eng) EXCEPT !.pc = "stopped"])
    /\ UNCHANGED <<engFrame, orders_queue>>

\* The Signal Source: await orders_queue.put(order).
Enqueue ==
    /\ produced < MaxCandidates
    /\ \E c \in Candidates : orders_queue' = Append(orders_queue, c)
    /\ produced' = produced + 1
    /\ unfinished' = unfinished + 1
    /\ UNCHANGED <<limVars, cfgVars, storeVars, positions, order_in_process, falls,
                   engPc, order, token, long_res, short_res, payload, pos_id, polls,
                   hist, accepted, monVars, riskVars, aged, monHistVars, clientVars, calc>>

RECURSIVE ClearFlags(_, _)
ClearFlags(e, S) ==
    IF S = {} THEN e
    ELSE LET s == CHOOSE x \in S : TRUE
         IN  ClearFlags(SetFlag(e, s, FALSE), S \ {s})

\* POST /clear_in_process
clear_in_process ==
    /\ \E s \in Symbols : order_in_process[s]
    /\ Commit(ClearFlags(Eng, Symbols))
    /\ UNCHANGED <<engFrame, orders_queue>>

\* POST /replace_tokens: the token map is cleared and filled with the entries
\* of the request body, whatever fields they carry (here: the same entries
\* with any order_in_process values); taken while start_process holds no entry
\* of the old map.
replace_tokens ==
    /\ token = "NONE"
    /\ \E fl \in [Symbols -> BOOLEAN] :
          /\ fl # order_in_process
          /\ order_in_process' = fl
    /\ UNCHANGED <<limVars, cfgVars, storeVars, positions, falls, engVars, monVars,
                   riskVars, aged, monHistVars, clientVars, calc>>

\* A cooldown key reaches its time-to-live.
ExpireCooldown ==
    /\ \E s \in Symbols :
          /\ cooldown[s] # 0
          /\ cooldown' = [cooldown EXCEPT ![s] = 0]
    /\ UNCHANGED <<limVars, cfgVars, initial_spread, positions, order_in_process, falls,
                   engVars, monVars, riskVars, aged, monHistVars, clientVars, calc>>

(***************************************************************************)
(* Position Monitor                                                        *)
(***************************************************************************)
Targets == 1..Len(BaseSettings.SCALING_OUT_TARGETS)

LockSlots == 0..(MaxEntries - 1)

NoEval == [pos |-> 0, slDue |-> FALSE, holdVol |-> 0, closes |-> 0, closeVol |-> 0,
           done |-> FALSE, raised |-> FALSE, target |-> 0, marker |-> FALSE,
           hitBefore |-> FALSE, skipped |-> {}, incrs |-> 0, written |-> {}]

\* The ex= argument of the redis writes of the monitor, 0 when the key is
\* written without one: set(initial_vol_key, hold_vol), set(peak_price_key,
\* peak_price) and incr(pyramiding_entries_key) have none.
KeyEx ==
    [pyramiding_lock |-> 300, pyramiding_entries |-> 0, initial_vol |-> 0,
     scaling_target_hit |-> 86400, peak_price |-> 0]

\* The evaluation e after a write of the key with the expiry ex.
Wrote(e, key, ex) == [e EXCEPT !.written = @ \cup {[key |-> key, ex |-> ex]}]

\* pnl_pct * openAvgPrice (an integer): pnl_pct = +-(current - entry) / entry * 100 * leverage
PnlScaled(p, price) ==
    LET c == PosCfg(p)
    IN  (IF c.positionType = 1 THEN price - c.openAvgPrice ELSE c.openAvgPrice - price)
            * 100 * c.leverage

\* pnl_pct >= x
PnlGe(p, price, x) == PnlScaled(p, price) >= x * PosCfg(p).openAvgPrice

\* pnl_pct <= x
PnlLe(p, price, x) == PnlScaled(p, price) <= x * PosCfg(p).openAvgPrice

InsertOff(sorted, t) == sorted \o <<t>>

\* sorted(scaling_targets, key=pnl_percent): stable insertion sort.
RECURSIVE Insert(_, _)
Insert(sorted, t) ==
    IF sorted = <<>> THEN <<t>>
    ELSE IF t.pnl_percent < Head(sorted).pnl_percent THEN <<t>> \o sorted
    ELSE <<Head(sorted)>> \o Insert(Tail(sorted), t)

RECURSIVE Sorted(_)
Sorted(ts) ==
    IF ts = <<>> THEN <<>>
    ELSE Insert(Sorted(SubSeq(ts, 1, Len(ts) - 1)), ts[Len(ts)])

\* close_position lines 49-57: the volume of the close order, 0 when none is
\* sent (close_vol -1 stands for None).
vol_to_close(hold_vol, close_vol) ==
    LET v == IF close_vol # -1 THEN close_vol ELSE hold_vol
        w == IF v > hold_vol THEN hold_vol ELSE v
    IN  IF w <= 0 THEN 0 ELSE w

\* The "for pos in open_positions" loop moves on; after the last position the
\* cycle ends in asyncio.sleep(interval).
NextPos(p) ==
    LET rest == { q \in PosIds : q > p /\ snap[q] > 0 }
    IN  IF rest = {} THEN 0 ELSE CHOOSE q \in rest : \A r \in rest : q <= r

Continue(p) ==
    /\ mpos' = NextPos(p)
    /\ monPc' = IF NextPos(p) = 0 THEN "sleep" ELSE "pyramiding"
    /\ current_price' = 0
    /\ snap' = IF NextPos(p) = 0 THEN [q \in PosIds |-> 0] ELSE snap

\* The exception reaches "except Exception" of the cycle: sleep(30), next cycle.
CycleAbortedOff ==
    /\ mpos' = 0
    /\ monPc' = "stopped"
    /\ current_price' = 0
    /\ snap' = [q \in PosIds |-> 0]

\* An exception leaves the cycle: "except Exception", asyncio.sleep(30).
CycleAborted ==
    /\ mpos' = 0
    /\ monPc' = "sleep"
    /\ current_price' = 0
    /\ snap' = [q \in PosIds |-> 0]

\* The exchange executes a close order of volume v on position p.
Reduce(p, v) == [positions EXCEPT ![p] = IF @ > v THEN @ - v ELSE 0]

monFrame == <<limVars, cfgVars, order_in_process, falls, engVars, clientVars, calc>>

\* Start of a cycle: settings, get_open_positions, get_all_market_tickers.
MonFetch ==
    /\ monPc = "sleep"
    /\ cycles < MaxCycles
    /\ cycles' = cycles + 1
    /\ \E p \in PosIds : positions[p] > 0
    /\ snap' = positions
    /\ mpos' = CHOOSE p \in PosIds :
                  /\ positions[p] > 0
                  /\ \A q \in PosIds : positions[q] > 0 => p <= q
    /\ monPc' = "pyramiding"
    /\ ev' = NoEval
    /\ UNCHANGED <<monFrame, storeVars, positions, current_price, auth_token, new_payload,
                   riskVars, aged, monHistVars>>

\* redis.set(pyramiding_lock_key, 1, ex=300, nx=True) succeeds
lock_nx(locks, p, n) == ~locks[p][n]

\* Lines 118-175: required fields, ticker, PnL, then the pyramiding block up to
\* its first create-order request. tick 0 stands for a position without a
\* required key or without a ticker ("continue"), NoLastPrice for a ticker
\* that has no 'lastPrice' (line 138 raises KeyError).
MonPyramiding ==
    /\ monPc = "pyramiding"
    /\ \E tick \in Prices \cup {0, NoLastPrice} :
          IF tick = 0
          THEN /\ Continue(mpos)
               /\ ev' = [NoEval EXCEPT !.pos = mpos, !.done = TRUE]
               /\ UNCHANGED <<auth_token, new_payload, pyramiding_lock>>
          ELSE IF tick = NoLastPrice
          THEN /\ CycleAborted
               /\ ev' = [NoEval EXCEPT !.pos = mpos, !.done = TRUE, !.raised = TRUE]
               /\ UNCHANGED <<auth_token, new_payload, pyramiding_lock>>
          ELSE
            LET p == mpos
                cfg == settings.PYRAMIDING_CONFIG
                entries_count == pyramiding_entries[p]
                np == AddonPayload[p, tick]
                attempt == /\ settings.USE_PYRAMIDING
                           /\ PnlGe(p, tick, cfg.pnl_threshold_percent)
                           /\ entries_count < cfg.max_entries
                           /\ lock_nx(pyramiding_lock, p, entries_count)
            IN  /\ current_price' = tick
                /\ snap' = snap
                /\ ev' = [NoEval EXCEPT
                            !.pos = p,
                            !.holdVol = snap[p],
                            !.slDue = /\ settings.EXCHANGE_STOP_LOSS_PERCENT # 0
                                      /\ PnlLe(p, tick, -settings.EXCHANGE_STOP_LOSS_PERCENT),
                            !.written = IF attempt
                                        THEN {[key |-> "pyramiding_lock",
                                               ex |-> KeyEx.pyramiding_lock]}
                                        ELSE {}]
                /\ mpos' = mpos
                /\ pyramiding_lock' = IF attempt
                                      THEN [pyramiding_lock EXCEPT ![p][entries_count] = TRUE]
                                      ELSE pyramiding_lock
                /\ IF attempt /\ np # NoPayload
                   THEN /\ new_payload' = np
                        /\ auth_token' = 1
                        /\ monPc' = "pyr_create"
                   ELSE /\ UNCHANGED <<new_payload, auth_token>>
                        /\ monPc' = "scaling"
    /\ UNCHANGED <<monFrame, cycles, storeVars, positions, peak_price, initial_vol, target_hit,
                   pyramiding_entries, aged, monHistVars>>

\* handle_order_create of the add-on answers (lines 171-175); the loop goes to
\* the next account or the block ends.
MonPyrCreate ==
    /\ monPc = "pyr_create"
    /\ \E res \in CreateResp :
          /\ pyramiding_entries' =
                IF res # "FAIL"
                THEN [pyramiding_entries EXCEPT ![mpos] = @ + 1]
                ELSE pyramiding_entries
          /\ addons' = IF res # "FAIL" THEN [addons EXCEPT ![mpos] = @ + 1] ELSE addons
          /\ ev' = IF res # "FAIL"
                   THEN Wrote([ev EXCEPT !.incrs = @ + 1], "pyramiding_entries",
                              KeyEx.pyramiding_entries)
                   ELSE ev
    /\ IF auth_token < NumAccounts
       THEN /\ auth_token' = auth_token + 1
            /\ UNCHANGED <<monPc, new_payload>>
       ELSE /\ auth_token' = auth_token
            /\ new_payload' = NoPayload
            /\ monPc' = "scaling"
    /\ UNCHANGED <<monFrame, cycles, storeVars, positions, snap, mpos, current_price, peak_price,
                   initial_vol, target_hit, pyramiding_lock, aged, closedBy, everHit>>

target_doneOff(hits, p, i) == FALSE

\* await redis.exists(target_key)
target_done(hits, p, i) == hits[p][i]

\* Lines 177-201: Scaling Out.
MonScaling ==
    /\ monPc = "scaling"
    /\ IF ~settings.USE_SCALING_OUT
       THEN /\ monPc' = "stoploss"
            /\ UNCHANGED <<mpos, snap, current_price, ev, positions, initial_vol, target_hit,
                           everHit>>
       ELSE
         LET p == mpos
             hold_vol == snap[p]
             base == IF initial_vol[p] = 0 THEN hold_vol ELSE initial_vol[p]
             targets == Sorted(settings.SCALING_OUT_TARGETS)
             due == { i \in 1..Len(targets) :
                        /\ PnlGe(p, current_price, targets[i].pnl_percent)
                        /\ ~target_done(target_hit, p, i) }
             read == [ev EXCEPT !.skipped = { i \in 1..Len(targets) :
                                                /\ PnlGe(p, current_price, targets[i].pnl_percent)
                                                /\ target_hit[p][i] }]
             seen == IF initial_vol[p] = 0
                     THEN Wrote(read, "initial_vol", KeyEx.initial_vol)
                     ELSE read
         IN  /\ initial_vol' = [initial_vol EXCEPT ![p] = base]
             /\ IF due = {}
                THEN /\ monPc' = "stoploss"
                     /\ ev' = seen
                     /\ UNCHANGED <<mpos, snap, current_price, positions, target_hit, everHit>>
                ELSE
                  LET i == CHOOSE j \in due : \A k \in due : j <= k
                      final_vol_to_close == Round(base * targets[i].num, targets[i].den)
                      v == vol_to_close(hold_vol, final_vol_to_close)
                  IN  IF auth_token = 0
                      THEN /\ CycleAborted
                           /\ ev' = [seen EXCEPT !.done = TRUE, !.raised = TRUE]
                           /\ UNCHANGED <<positions, target_hit, everHit>>
                      ELSE IF v = 0
                      THEN /\ monPc' = "stoploss"
                           /\ ev' = seen
                     /\ UNCHANGED <<mpos, snap, current_price, positions, target_hit, everHit>>
                      ELSE
                        \E success \in BOOLEAN :
                              IF success
                              THEN /\ target_hit' = [target_hit EXCEPT ![p][i] = TRUE]
                                   /\ everHit' = [everHit EXCEPT ![p][i] = TRUE]
                                   /\ positions' = Reduce(p, v)
                                   /\ Continue(p)
                                   /\ ev' = Wrote([seen EXCEPT !.closes = @ + 1, !.closeVol = v,
                                                       !.done = TRUE, !.target = i,
                                                       !.marker = target_hit[p][i],
                                                       !.hitBefore = everHit[p][i]],
                                                  "scaling_target_hit", KeyEx.scaling_target_hit)
                              ELSE /\ monPc' = "stoploss"
                                   /\ mpos' = mpos
                                   /\ UNCHANGED <<snap, current_price>>
                                   /\ ev' = [seen EXCEPT !.closes = @ + 1, !.closeVol = v,
                                                       !.target = i,
                                                       !.marker = target_hit[p][i],
                                                       !.hitBefore = everHit[p][i]]
                                   /\ UNCHANGED <<positions, target_hit, everHit>>
    /\ UNCHANGED <<monFrame, cycles, storeVars, auth_token, new_payload,
                   peak_price, pyramiding_entries, pyramiding_lock, aged, closedBy, addons>>

\* The asyncio.gather of the deletes after a full close.
ClearKeys(p) ==
    /\ peak_price' = [peak_price EXCEPT ![p] = 0]
    /\ initial_spread' = [initial_spread EXCEPT ![p] = FALSE]
    /\ initial_vol' = [initial_vol EXCEPT ![p] = 0]

\* Lines 203-216: hard Stop-Loss.
MonStopLoss ==
    /\ monPc = "stoploss"
    /\ LET p == mpos
           stop_loss_pct == settings.EXCHANGE_STOP_LOSS_PERCENT
           v == vol_to_close(snap[p], -1)
       IN  IF ~(stop_loss_pct # 0 /\ PnlLe(p, current_price, -stop_loss_pct))
           THEN /\ monPc' = "trailing"
                /\ UNCHANGED <<mpos, snap, current_price, ev, positions, cooldown, initial_spread, peak_price,
                               initial_vol, closedBy>>
           ELSE IF auth_token = 0
           THEN /\ CycleAborted
                /\ ev' = [ev EXCEPT !.done = TRUE, !.raised = TRUE]
                /\ UNCHANGED <<positions, cooldown, initial_spread, peak_price, initial_vol,
                               closedBy>>
           ELSE IF v = 0
           THEN /\ monPc' = "trailing"
                /\ UNCHANGED <<mpos, snap, current_price, ev, positions, cooldown, initial_spread, peak_price,
                               initial_vol, closedBy>>
           ELSE \E success \in BOOLEAN :
                   IF success
                   THEN /\ cooldown' = [cooldown EXCEPT ![PosCfg(p).symbol] =
                                           settings.LOSS_COOLDOWN_SECONDS]
                        /\ ClearKeys(p)
                        /\ positions' = Reduce(p, v)
                        /\ closedBy' = [closedBy EXCEPT ![p] = "stoploss"]
                        /\ Continue(p)
                        /\ ev' = Wrote([ev EXCEPT !.closes = @ + 1, !.closeVol = v, !.done = TRUE],
                                       "cooldown", settings.LOSS_COOLDOWN_SECONDS)
                   ELSE /\ monPc' = "trailing"
                        /\ mpos' = mpos
                        /\ UNCHANGED <<snap, current_price>>
                        /\ ev' = [ev EXCEPT !.closes = @ + 1, !.closeVol = v]
                        /\ UNCHANGED <<positions, cooldown, initial_spread, peak_price,
                                       initial_vol, closedBy>>
    /\ UNCHANGED <<monFrame, cycles, auth_token, new_payload, target_hit,
                   pyramiding_entries, pyramiding_lock, aged, everHit, addons>>

PeakMovedOff(positionType, price, peak) == price # peak

\* Lines 226 and 232: the price went past the peak in the favourable direction.
PeakMoved(positionType, price, peak) ==
    IF positionType = 1 THEN price > peak ELSE price < peak

\* Lines 218-247: Trailing Stop.
MonTrailing ==
    /\ monPc = "trailing"
    /\ LET p == mpos
           c == PosCfg(p)
           old == IF peak_price[p] # 0 THEN peak_price[p] ELSE c.openAvgPrice
           moved == PeakMoved(c.positionType, current_price, old)
           peak == IF moved THEN current_price ELSE old
           stored == IF moved THEN [peak_price EXCEPT ![p] = peak] ELSE peak_price
           seen == IF moved THEN Wrote(ev, "peak_price", KeyEx.peak_price) ELSE ev
           trigger_hit ==
               IF c.positionType = 1
               THEN current_price * 1000 <= peak * (1000 - settings.TRAILING_PERMILLE)
               ELSE current_price * 1000 >= peak * (1000 + settings.TRAILING_PERMILLE)
           v == vol_to_close(snap[p], -1)
       IN  IF ~(/\ settings.USE_TRAILING_STOP
                /\ PnlGe(p, current_price, settings.TRAILING_ACTIVATION_PERCENT))
           THEN /\ monPc' = "timeout"
                /\ UNCHANGED <<mpos, snap, current_price, ev, positions, initial_spread, peak_price, initial_vol,
                               closedBy>>
           ELSE IF ~trigger_hit
           THEN /\ monPc' = "timeout"
                /\ peak_price' = stored
                /\ ev' = seen
                /\ UNCHANGED <<mpos, snap, current_price, positions, initial_spread, initial_vol, closedBy>>
           ELSE IF auth_token = 0
           THEN /\ CycleAborted
                /\ peak_price' = stored
                /\ ev' = [seen EXCEPT !.done = TRUE, !.raised = TRUE]
                /\ UNCHANGED <<positions, initial_spread, initial_vol, closedBy>>
           ELSE IF v = 0
           THEN /\ monPc' = "timeout"
                /\ peak_price' = stored
                /\ ev' = seen
                /\ UNCHANGED <<mpos, snap, current_price, positions, initial_spread, initial_vol, closedBy>>
           ELSE \E success \in BOOLEAN :
                   IF success
                   THEN /\ ClearKeys(p)
                        /\ positions' = Reduce(p, v)
                        /\ closedBy' = [closedBy EXCEPT ![p] = "trailing"]
                        /\ Continue(p)
                        /\ ev' = [seen EXCEPT !.closes = @ + 1, !.closeVol = v, !.done = TRUE]
                   ELSE /\ monPc' = "timeout"
                        /\ mpos' = mpos
                        /\ UNCHANGED <<snap, current_price>>
                        /\ peak_price' = stored
                        /\ ev' = [seen EXCEPT !.closes = @ + 1, !.closeVol = v]
                        /\ UNCHANGED <<positions, initial_spread, initial_vol, closedBy>>
    /\ UNCHANGED <<monFrame, cycles, cooldown, auth_token, new_payload,
                   target_hit, pyramiding_entries, pyramiding_lock, aged, everHit,
                   addons>>

\* Lines 249-264: position timeout; the end of the loop body.
MonTimeout ==
    /\ monPc = "timeout"
    /\ LET p == mpos
           v == vol_to_close(snap[p], -1)
       IN  IF ~(settings.MAX_POSITION_HOURS # 0 /\ aged[p])
           THEN /\ Continue(p)
                /\ ev' = [ev EXCEPT !.done = TRUE]
                /\ UNCHANGED <<positions, cooldown, initial_spread, peak_price, initial_vol,
                               closedBy>>
           ELSE IF auth_token = 0
           THEN /\ CycleAborted
                /\ ev' = [ev EXCEPT !.done = TRUE, !.raised = TRUE]
                /\ UNCHANGED <<positions, cooldown, initial_spread, peak_price, initial_vol,
                               closedBy>>
           ELSE IF v = 0
           THEN /\ Continue(p)
                /\ ev' = [ev EXCEPT !.done = TRUE]
                /\ UNCHANGED <<positions, cooldown, initial_spread, peak_price, initial_vol,
                               closedBy>>
           ELSE \E success \in BOOLEAN :
                   /\ Continue(p)
                   /\ ev' = IF success
                            THEN Wrote([ev EXCEPT !.closes = @ + 1, !.closeVol = v,
                                                  !.done = TRUE],
                                       "cooldown", settings.TIMEOUT_COOLDOWN_SECONDS)
                            ELSE [ev EXCEPT !.closes = @ + 1, !.closeVol = v, !.done = TRUE]
                   /\ IF success
                      THEN /\ cooldown' = [cooldown EXCEPT ![PosCfg(p).symbol] =
                                              settings.TIMEOUT_COOLDOWN_SECONDS]
                           /\ ClearKeys(p)
                           /\ positions' = Reduce(p, v)
                           /\ closedBy' = [closedBy EXCEPT ![p] = "timeout"]
                      ELSE UNCHANGED <<positions, cooldown, initial_spread, peak_price,
                                       initial_vol, closedBy>>
    /\ UNCHANGED <<monFrame, cycles, auth_token, new_payload, target_hit,
                   pyramiding_entries, pyramiding_lock, aged, everHit, addons>>

\* A cycle reads and writes the keys and the age of a position once, while it
\* evaluates that position, so time passing inside a cycle has the effect of
\* time passing just before or just after it: the three clock actions below
\* are taken while the loop is in asyncio.sleep(interval).

\* Time passes: an open position grows older than MAX_POSITION_HOURS.
Age ==
    /\ monPc = "sleep"
    /\ \E p \in PosIds :
          /\ positions[p] > 0
          /\ ~aged[p]
          /\ aged' = [aged EXCEPT ![p] = TRUE]
    /\ UNCHANGED <<monFrame, storeVars, positions, monVars, riskVars, monHistVars>>

\* A scale-out marker reaches its time-to-live (ex=86400).
ExpireTargetHit ==
    /\ monPc = "sleep"
    /\ \E p \in PosIds, i \in Targets :
          /\ target_hit[p][i]
          /\ target_hit' = [target_hit EXCEPT ![p][i] = FALSE]
    /\ UNCHANGED <<monFrame, storeVars, positions, monVars, peak_price, initial_vol,
                   pyramiding_entries, pyramiding_lock, aged, monHistVars>>

\* A pyramiding lock reaches its time-to-live (ex=300).
ExpireLock ==
    /\ monPc = "sleep"
    /\ \E p \in PosIds, n \in LockSlots :
          /\ pyramiding_lock[p][n]
          /\ pyramiding_lock' = [pyramiding_lock EXCEPT ![p][n] = FALSE]
    /\ UNCHANGED <<monFrame, storeVars, positions, monVars, peak_price, initial_vol,
                   target_hit, pyramiding_entries, aged, monHistVars>>

(***************************************************************************)
(* Signal Source (local_signal_generator)                                  *)
(***************************************************************************)
\* Values of a price field of a payload: NoneValue for a missing field,
\* NotNumber for a value that is no number, else the number.
NoneValue == -1

NotNumber == -2

\* Messages of the feed.  type is the WSMsgType; body is what json.loads of
\* the data gives ("undecodable" when it raises); payload is event['payload'];
\* symbol is payload['symbol']: "NONE" when missing or empty, "INT" when it is
\* a number, else the string.
NoMessage ==
    [type |-> "NONE", body |-> "none", payload |-> "none", symbol |-> "NONE",
     bid |-> NoneValue, ask |-> NoneValue, dex |-> NoneValue]

FeedMessages ==
    { [NoMessage EXCEPT !.type = t] : t \in {"CLOSE", "ERROR", "PING"} }
      \cup
    { [NoMessage EXCEPT !.type = t, !.body = b] :
        t \in {"TEXT", "BINARY"}, b \in {"undecodable", "list", "other_event"} }
      \cup
    { [NoMessage EXCEPT !.type = "TEXT", !.body = "symbol_update", !.payload = pl] :
        pl \in {"none", "list"} }
      \cup
    { [type |-> "TEXT", body |-> "symbol_update", payload |-> "dict", symbol |-> sy,
       bid |-> b, ask |-> a, dex |-> d] :
        sy \in {"NONE", "ABC_USDT", "xyz", "INT"},
        b \in {NoneValue, NotNumber, 0, 100},
        a \in {NoneValue, 0, 100},
        d \in {NoneValue, 98, 100, 101, 102, 200} }

\* SPREAD_MIN_PERCENT and SPREAD_MAX_PERCENT: float("1.2") and float("90.0").
min_spread == Dec(12, 1)

max_spread == FromInt(90)

\* _norm_pair_key for the symbols of FeedMessages.
norm_pair_key(k) == IF k = "xyz" THEN "XYZ_USDT" ELSE k

\* _calc_spread_pct: (dex - mexc_mid) / mexc_mid * 100.0 as sign and magnitude,
\* none when mexc_mid is 0.0.
calc_spread_pct(mexc_mid, dex) ==
    IF mexc_mid = Zero THEN [none |-> TRUE, neg |-> FALSE, abs |-> Zero]
    ELSE LET neg == FLt(dex, mexc_mid)
             diff == IF neg THEN FSub(mexc_mid, dex) ELSE FSub(dex, mexc_mid)
         IN  [none |-> FALSE, neg |-> neg,
              abs |-> FMul(FDiv(diff, mexc_mid), FromInt(100))]

in_rangeOff(abs_spread) == FLe(min_spread, abs_spread)

\* min_spread <= abs(spread) <= max_spread
in_range(abs_spread) == FLe(min_spread, abs_spread) /\ FLe(abs_spread, max_spread)

\* What one pass of the "async for msg in ws" body does with the message:
\* "put" (a candidate is enqueued), "drop", "break" (the connection is left)
\* or "raise" (an exception leaves the body).
handle_message(m) ==
    IF m.type \in {"CLOSE", "ERROR"} THEN "break"
    ELSE IF m.type \notin {"TEXT", "BINARY"} THEN "drop"
    ELSE IF m.body # "symbol_update" THEN "drop"
    ELSE IF m.payload = "none" THEN "drop"
    ELSE IF m.payload = "list" THEN "raise"
    ELSE IF m.symbol = "NONE" THEN "drop"
    ELSE IF NoneValue \in {m.bid, m.ask, m.dex} THEN "drop"
    ELSE IF NotNumber \in {m.bid, m.ask, m.dex} THEN "raise"
    ELSE LET mexc_mid_price == FDiv(FAdd(FromInt(m.bid), FromInt(m.ask)), FromInt(2))
             spread == calc_spread_pct(mexc_mid_price, FromInt(m.dex))
         IN  IF spread.none \/ ~in_range(spread.abs) THEN "drop"
             ELSE IF m.symbol = "INT" THEN "raise"
             ELSE "put"

\* The order _process_symbol_update builds (lines 69-84).
feed_order(m) ==
    LET mexc_mid_price == FDiv(FAdd(FromInt(m.bid), FromInt(m.ask)), FromInt(2))
    IN  [mexc_symbol |-> norm_pair_key(m.symbol),
         percent |-> calc_spread_pct(mexc_mid_price, FromInt(m.dex)),
         limit_price |-> mexc_mid_price]

\* handle_message and feed_order of every message, computed once.
Handled == [m \in FeedMessages |-> handle_message(m)]

FeedOrders ==
    [m \in FeedMessages |-> IF Handled[m] = "put" THEN feed_order(m) ELSE NoOrder]

\* start_polling: position of the task, messages received so far, the last
\* message, what was done with it, and the backoff in half seconds.
FeedInit ==
    [pc |-> "connect", n |-> 0, msg |-> NoMessage, did |-> "none", backoff |-> 1]

feedFrame == <<limVars, cfgVars, storeVars, positions, order_in_process, falls,
               engPc, order, token, long_res, short_res, payload, pos_id, polls,
               hist, accepted, monVars, riskVars, aged, monHistVars, clientVars>>

\* "except Exception" of start_polling (lines 158-163): the loop goes on.
FeedRaised == "backoff"

\* ws_connect (lines 123-130); a failure is caught by the loop's except clauses.
FeedConnect ==
    /\ calc.pc = "connect"
    /\ \E connected \in BOOLEAN :
          calc' = IF connected
                  THEN [calc EXCEPT !.pc = "receive", !.backoff = 1]
                  ELSE [calc EXCEPT !.pc = FeedRaised]
    /\ UNCHANGED <<feedFrame, orders_queue, unfinished, produced>>

\* One message: lines 132-156 with _handle_event and _process_symbol_update.
FeedReceive ==
    /\ calc.pc = "receive"
    /\ calc.n < MaxMessages
    /\ \E m \in FeedMessages :
          LET did == Handled[m]
          IN  /\ calc' = [calc EXCEPT
                            !.n = @ + 1, !.msg = m, !.did = did,
                            !.pc = IF did = "raise" THEN FeedRaised
                                   ELSE IF did = "break" THEN "backoff"
                                   ELSE "receive"]
              /\ IF did = "put"
                 THEN /\ orders_queue' = Append(orders_queue, FeedOrders[m])
                      /\ produced' = produced + 1
                      /\ unfinished' = unfinished + 1
                 ELSE UNCHANGED <<orders_queue, unfinished, produced>>
    /\ UNCHANGED feedFrame

\* asyncio.sleep(backoff) ends; backoff = min(max_backoff, backoff * 2).
FeedBackoff ==
    /\ calc.pc = "backoff"
    /\ calc' = [calc EXCEPT !.pc = "connect", !.backoff = Min(20, 2 * @)]
    /\ UNCHANGED <<feedFrame, orders_queue, unfinished, produced>>

(***************************************************************************)
(* Initial states and specifications                                       *)
(***************************************************************************)
LimInit ==
    /\ now = 0
    /\ timestamps = <<>>
    /\ lockOwner = 0
    /\ lockWaiters = <<>>
    /\ callerPc = [c \in Callers |-> "idle"]
    /\ wakeAt = [c \in Callers |-> 0]
    /\ admitLog = [t \in 0..MaxTime |-> 0]

ClientInit ==
    /\ sent = [c \in Callers |-> 0]
    /\ requests = 0

StoreInit ==
    /\ order_in_process = [s \in Symbols |-> FALSE]
    /\ cooldown = [s \in Symbols |-> 0]
    /\ falls = [s \in Symbols |-> 0]

EngInit ==
    /\ orders_queue = <<>>
    /\ unfinished = 0
    /\ engPc = "get"
    /\ order = NoOrder
    /\ token = "NONE"
    /\ long_res = "NONE"
    /\ short_res = "NONE"
    /\ payload = NoPayload
    /\ pos_id = 0
    /\ polls = 0
    /\ hist = NoHist
    /\ accepted = [s \in Symbols |-> 0]

MonInit ==
    /\ monPc = "sleep"
    /\ cycles = 0
    /\ snap = [p \in PosIds |-> 0]
    /\ mpos = 0
    /\ current_price = 0
    /\ auth_token = 0
    /\ new_payload = NoPayload
    /\ peak_price = [p \in PosIds |-> 0]
    /\ initial_vol = [p \in PosIds |-> 0]
    /\ target_hit = [p \in PosIds |-> [i \in Targets |-> FALSE]]
    /\ pyramiding_entries = [p \in PosIds |-> 0]
    /\ pyramiding_lock = [p \in PosIds |-> [n \in LockSlots |-> FALSE]]
    /\ aged = [p \in PosIds |-> FALSE]
    /\ ev = NoEval
    /\ closedBy = [p \in PosIds |-> "none"]
    /\ everHit = [p \in PosIds |-> [i \in Targets |-> FALSE]]
    /\ addons = [p \in PosIds |-> 0]

LimNext ==
    \/ \E c \in Callers : Acquire(c)
    \/ \E c \in Callers : LockGranted(c)
    \/ \E c \in Callers : Wake(c)
    \/ \E c \in Callers : Finish(c)
    \/ Tick

EngNext ==
    \/ Enqueue
    \/ EngGet
    \/ EngReadSettings
    \/ EngCooldownCheck
    \/ EngLevLong
    \/ EngLevShort
    \/ EngCancelOrders
    \/ EngCancelPlan
    \/ EngRetryLong
    \/ EngRetryShort
    \/ EngOneWay
    \/ EngCreate
    \/ EngWaitFill
    \/ EngFetchPos
    \/ EngPlanOrders
    \/ EngRaise
    \/ EngRaiseOuter
    \/ EngSleepDone
    \/ EngCancel
    \/ clear_in_process
    \/ ExpireCooldown

MonNext ==
    \/ MonFetch
    \/ MonPyramiding
    \/ MonPyrCreate
    \/ MonScaling
    \/ MonStopLoss
    \/ MonTrailing
    \/ MonTimeout
    \/ Age
    \/ ExpireTargetHit
    \/ ExpireLock
    \/ ExpireCooldown

InitLimiter ==
    /\ LimInit
    /\ ClientInit
    /\ calc = NoCalc
    /\ StoreInit
    /\ positions = [p \in PosIds |-> InitVol]
    /\ initial_spread = [p \in PosIds |-> FALSE]
    /\ produced = 0
    /\ EngInit
    /\ MonInit
    /\ settings = BaseSettings
    /\ is_ignored = [s \in Symbols |-> FALSE]

InitEngine ==
    /\ LimInit
    /\ ClientInit
    /\ calc = NoCalc
    /\ StoreInit
    /\ positions = [p \in PosIds |-> InitVol]
    /\ initial_spread = [p \in PosIds |-> FALSE]
    /\ produced = 0
    /\ EngInit
    /\ MonInit
    /\ settings \in EngineSettings
    /\ is_ignored \in [Symbols -> BOOLEAN]

InitMonitor ==
    /\ LimInit
    /\ ClientInit
    /\ calc = NoCalc
    /\ StoreInit
    /\ EngInit
    /\ MonInit
    /\ settings \in MonitorSettings
    /\ positions \in OpenPositions
    /\ (\A p \in PosIds : positions[p] > 0) => settings \in TwoPositionSettings
    /\ initial_spread = [p \in PosIds |-> positions[p] > 0]
    /\ produced = 0
    /\ is_ignored = [s \in Symbols |-> FALSE]

\* Both tasks of main(): the Order Processing Engine and the Position Monitor,
\* with one position open, pyramiding as the only monitor strategy enabled and
\* one candidate left for the Signal Source to produce.
InitBoth ==
    /\ LimInit
    /\ ClientInit
    /\ calc = NoCalc
    /\ StoreInit
    /\ EngInit
    /\ MonInit
    /\ settings = PyramidingSettings
    /\ positions = [p \in PosIds |-> IF p = 1 THEN InitVol ELSE 0]
    /\ initial_spread = [p \in PosIds |-> positions[p] > 0]
    /\ produced = MaxCandidates - 1
    /\ is_ignored = [s \in Symbols |-> FALSE]

BothNext ==
    \/ EngNext
    \/ MonFetch
    \/ MonPyramiding
    \/ MonPyrCreate
    \/ MonScaling
    \/ MonStopLoss
    \/ MonTrailing
    \/ MonTimeout
    \/ ExpireLock

\* The tasks of main() that call the exchange: start_process and start_monitoring.
ClientTasks == {1, 2}

\* The callers of the Signed Exchange Client: every call awaits acquire() and
\* then talks to the exchange.
ClientNext ==
    \/ \E c \in ClientTasks : Acquire(c)
    \/ \E c \in ClientTasks : LockGranted(c)
    \/ \E c \in ClientTasks : Wake(c)
    \/ \E c \in ClientTasks : ClientRequest(c)
    \/ \E c \in ClientTasks : ClientNoRequest(c)
    \/ \E c \in ClientTasks : ClientPositionsRequest(c)
    \/ Tick

SpecClient == InitLimiter /\ [][ClientNext]_vars

\* The normalisation functions applied to every argument of CalcArgs.
InitPayload ==
    /\ LimInit
    /\ ClientInit
    /\ StoreInit
    /\ positions = [p \in PosIds |-> InitVol]
    /\ initial_spread = [p \in PosIds |-> FALSE]
    /\ produced = 0
    /\ EngInit
    /\ MonInit
    /\ settings = BaseSettings
    /\ is_ignored = [s \in Symbols |-> FALSE]
    /\ calc \in CalcArgs

PayNext ==
    \/ CalcPayload
    \/ CalcTriggers

SpecPayload == InitPayload /\ [][PayNext]_vars

\* The Signal Source alone, fed with the messages of FeedMessages.
InitSignal ==
    /\ LimInit
    /\ ClientInit
    /\ StoreInit
    /\ positions = [p \in PosIds |-> InitVol]
    /\ initial_spread = [p \in PosIds |-> FALSE]
    /\ produced = 0
    /\ EngInit
    /\ MonInit
    /\ settings = BaseSettings
    /\ is_ignored = [s \in Symbols |-> FALSE]
    /\ calc = FeedInit

SignalNext ==
    \/ FeedConnect
    \/ FeedReceive
    \/ FeedBackoff

SpecSignal == InitSignal /\ [][SignalNext]_vars

\* close_position called with every argument of CloseArgs.
InitClose ==
    /\ LimInit
    /\ ClientInit
    /\ StoreInit
    /\ positions = [p \in PosIds |-> InitVol]
    /\ initial_spread = [p \in PosIds |-> FALSE]
    /\ produced = 0
    /\ EngInit
    /\ MonInit
    /\ settings = BaseSettings
    /\ is_ignored = [s \in Symbols |-> FALSE]
    /\ calc \in CloseArgs

CloseNext ==
    \/ CloseSubmit
    \/ CloseAnswer

SpecClose == InitClose /\ [][CloseNext]_vars

\* Both tasks of main() with the exchange stop-loss configured next to
\* pyramiding, so that the monitor's close calls are reached.
InitLoops ==
    /\ LimInit
    /\ ClientInit
    /\ calc = NoCalc
    /\ StoreInit
    /\ EngInit
    /\ MonInit
    /\ settings = [PyramidingSettings EXCEPT !.EXCHANGE_STOP_LOSS_PERCENT = 5]
    /\ positions = [p \in PosIds |-> IF p = 1 THEN InitVol ELSE 0]
    /\ initial_spread = [p \in PosIds |-> positions[p] > 0]
    /\ produced = MaxCandidates - 1
    /\ is_ignored = [s \in Symbols |-> FALSE]

SpecLoops == InitLoops /\ [][BothNext]_vars

SpecLimiter == InitLimiter /\ [][LimNext]_vars

\* The event loop resumes every task that is ready (a task handed the lock, a
\* task whose sleep has ended), and the monotonic clock advances.
LimiterFairness ==
    /\ WF_vars(Tick)
    /\ \A c \in Callers : WF_vars(LockGranted(c)) /\ WF_vars(Wake(c))

SpecLimiterFair == SpecLimiter /\ LimiterFairness

SpecEngine == InitEngine /\ [][EngNext]_vars

\* handle_order resumes from an awaited exchange call.
HandleOrderStep ==
    \/ EngLevLong
    \/ EngLevShort
    \/ EngCancelOrders
    \/ EngCancelPlan
    \/ EngRetryLong
    \/ EngRetryShort
    \/ EngOneWay
    \/ EngCreate
    \/ EngWaitFill
    \/ EngFetchPos
    \/ EngPlanOrders

\* The start_process task resumes from an await.
StartProcessStep ==
    \/ EngGet
    \/ EngReadSettings
    \/ EngCooldownCheck
    \/ HandleOrderStep
    \/ EngSleepDone

\* The engine with the base settings, in hedge or one-way mode and no symbol
\* ignored; the event loop resumes the task after every await.
InitEngineFair ==
    /\ InitEngine
    /\ \E h \in BOOLEAN : settings = [BaseSettings EXCEPT !.IS_HEDGE_MODE = h]
    /\ \A s \in Symbols : ~is_ignored[s]

\* The engine task and the Signal Source, with the control API idle.
FairNext ==
    \/ Enqueue
    \/ StartProcessStep
    \/ EngRaise
    \/ EngRaiseOuter
    \/ EngCancel
    \/ ExpireCooldown

SpecEngineFair == InitEngineFair /\ [][FairNext]_vars /\ WF_vars(StartProcessStep)

\* The engine with the base settings next to the control API handler that
\* replaces the token map.
InitEngineTokens ==
    /\ InitEngine
    /\ settings = BaseSettings

TokensNext ==
    \/ Enqueue
    \/ StartProcessStep
    \/ EngRaise
    \/ EngRaiseOuter
    \/ EngCancel
    \/ ExpireCooldown
    \/ replace_tokens

SpecEngineTokens == InitEngineTokens /\ [][TokensNext]_vars

SpecMonitor == InitMonitor /\ [][MonNext]_vars

Spec == InitBoth /\ [][BothNext]_vars

RECURSIVE SumLog(_, _, _)
SumLog(log, lo, hi) ==
    IF lo > hi THEN 0
    ELSE (IF lo >= 0 THEN log[lo] ELSE 0) + SumLog(log, lo + 1, hi)

\* C4: in every rolling one-second window (t - 1s, t] the number of admissions
\* granted by acquire() never exceeds the configured cap, for any number of
\* concurrent callers and any arrival pattern.
C4_WindowCap ==
    \A t \in 0..MaxTime :
        SumLog(admitLog, t - TicksPerSecond + 1, t) <= RateLimit

\* A burst above the cap: a full window while another caller is held back
\* inside acquire().
C4_Witness ==
    /\ \E t \in 0..MaxTime :
          SumLog(admitLog, t - TicksPerSecond + 1, t) = RateLimit
    /\ \E c \in Callers : callerPc[c] = "sleeping"
    /\ \E c \in Callers : callerPc[c] = "waitlock"

(***************************************************************************)
(* Order Processing Engine: claims                                         *)
(***************************************************************************)
HandleOrderOutcomes ==
    {"no_settings", "lev_fail", "payload_rejected", "create_fail", "exception",
     "cancelled", "placed"}

FailureOutcomes ==
    {"no_settings", "lev_fail", "payload_rejected", "create_fail", "exception"}

\* C1: per symbol, every accepted candidate lowers orderInProcess exactly once
\* (true -> false transitions = accepted candidates, the one in hand excepted
\* while its flag is up), and a raised flag always belongs to the single
\* candidate start_process is handling, so in-process intervals never overlap.
C1_OneInProcess ==
    \A s \in Symbols :
        /\ falls[s] + (IF order_in_process[s] THEN 1 ELSE 0) = accepted[s]
        /\ order_in_process[s] => (engPc \in HandleOrderPcs /\ token = s)

\* Two candidates of one symbol were accepted one after the other and the flag
\* fell once for each.
C1_Witness ==
    \E s \in Symbols : accepted[s] = 2 /\ falls[s] = 2 /\ ~order_in_process[s]

\* C2: whenever handle_order has returned or unwound (normal completion, early
\* return, exception, cancellation) the symbol's orderInProcess flag is false.
C2_FlagClearedOnExit ==
    hist.outcome \in HandleOrderOutcomes => ~hist.exitFlag

\* handle_order was cancelled at an await and left the flag false.
C2_Witness ==
    hist.outcome = "cancelled" /\ hist.admitted /\ ~hist.exitFlag

\* C5 as stated: a cooldown key present when the candidate is dequeued means
\* the candidate is dropped without any exchange call.
C5_DroppedIfCooldownAtDequeue ==
    hist.cdAtDequeue => (~hist.admitted /\ ~hist.called)

\* C5 amended: with USE_COOLDOWN set, a cooldown key present when the engine
\* queries the State Store for the dequeued candidate means the candidate is
\* dropped without any exchange call.
C5_DroppedIfCooldownAtCheck ==
    (settings.USE_COOLDOWN /\ hist.cdAtCheck) => (~hist.admitted /\ ~hist.called)

\* A candidate was dropped because of its symbol's cooldown.
C5_Witness ==
    settings.USE_COOLDOWN /\ hist.cdAtCheck /\ hist.outcome = "dropped"

\* C6 as stated: every terminal failure of an accepted candidate leaves a
\* cooldown key set for the symbol when its processing ends.
C6_CooldownOnEveryFailure ==
    hist.outcome \in FailureOutcomes => hist.exitCooldown

PostLeveragePcs == {"oneway", "create", "wait_fill", "fetch_pos", "plan_orders"}

\* C7: in hedge mode, once both sides have ended with code 600 exactly one
\* one-way leverage call has been issued for the candidate, never more than
\* one, and the create-order request follows it only if it succeeded.
C7_OneWayFallback ==
    /\ hist.oneway <= 1
    /\ (/\ settings.IS_HEDGE_MODE
        /\ engPc \in PostLeveragePcs
        /\ is_600(long_res) /\ is_600(short_res)) => hist.oneway = 1
    /\ (hist.oneway = 1 /\ hist.created) => hist.onewayRes = "OK"

\* Both sides ended with 600, the one-way call succeeded and the order was sent.
C7_Witness ==
    /\ engPc = "create"
    /\ is_600(long_res) /\ is_600(short_res)
    /\ hist.oneway = 1 /\ hist.onewayRes = "OK"

\* An opening order of the Order Processing Engine is awaiting the exchange's answer.
EngineOrderInFlight(s) == engPc = "create" /\ token = s

\* A pyramiding add-on order of the Position Monitor is awaiting the exchange's answer.
MonitorOrderInFlight(s) == monPc = "pyr_create" /\ PosCfg(mpos).symbol = s

\* C3: no opening order for a symbol is in flight while another opening order
\* for the same symbol is in flight, whether the engine's entry order or the
\* monitor's pyramiding add-on submitted it.
C3_OneOpeningOrderInFlight ==
    \A s \in Symbols : ~(EngineOrderInFlight(s) /\ MonitorOrderInFlight(s))

\* C8: when the evaluation of a position whose PnL is at or below the configured
\* stop-loss ends, exactly one close order was submitted for it, sized at the
\* full held volume, whatever strategies are enabled.
C8_StopLossClosesOnceInFull ==
    (ev.done /\ ev.slDue) => (ev.closes = 1 /\ ev.closeVol = ev.holdVol)

\* C9: after a stop-loss, trailing-stop or timeout close of a position has
\* succeeded, no per-position key of that position remains in the State Store.
C9_NoKeyLeftAfterClose ==
    \A p \in PosIds :
        closedBy[p] # "none" =>
            /\ peak_price[p] = 0
            /\ initial_vol[p] = 0
            /\ ~initial_spread[p]
            /\ \A i \in Targets : ~target_hit[p][i]
            /\ pyramiding_entries[p] = 0
            /\ \A n \in LockSlots : ~pyramiding_lock[p][n]

\* C10 as stated: a close order is never submitted for a scale-out target of a
\* position that was marked hit in an earlier cycle.
C10_NoCloseOnceMarked ==
    ev.target # 0 => ~ev.hitBefore

\* C10 amended: a close order is never submitted for a scale-out target whose
\* hit marker is present in the State Store when Scaling Out is evaluated.
C10_NoCloseWhileMarked ==
    ev.target # 0 => ~ev.marker

\* A marked target whose threshold is reached again was passed over without a close.
C10_Witness ==
    /\ cycles > 1
    /\ ev.skipped # {}
    /\ ev.target \notin ev.skipped
    /\ ev.closes = 0
    /\ ev.done

\* C11: while a position stays open, its stored trailing-stop peak price only
\* moves in the favourable direction from one step to the next: it never
\* decreases for a long position and never increases for a short one.
C11_PeakMonotone ==
    [][\A p \in PosIds :
          (peak_price[p] # 0 /\ positions'[p] > 0) =>
              IF PosCfg(p).positionType = 1
              THEN peak_price'[p] >= peak_price[p]
              ELSE peak_price'[p] # 0 /\ peak_price'[p] <= peak_price[p]]_vars

\* The trailing stop was evaluated for an open position at a price less
\* favourable than its stored peak, and the peak was kept.
C11_Witness ==
    /\ monPc = "timeout"
    /\ positions[mpos] > 0
    /\ peak_price[mpos] # 0
    /\ PnlGe(mpos, current_price, settings.TRAILING_ACTIVATION_PERCENT)
    /\ settings.USE_TRAILING_STOP
    /\ IF PosCfg(mpos).positionType = 1
       THEN current_price < peak_price[mpos]
       ELSE current_price > peak_price[mpos]

\* x is the float of a decimal number with at most s fractional digits.
IsDecimal(x, s) == x = Dec(Scaled(x, s), s)

\* The volume step 10^-volScale of a token.
StepOf(tok) == IF tok.volScale = 0 THEN FromInt(1) ELSE Dec(1, tok.volScale)

Computed == calc.pc \in {"payload", "done"}

\* C12: the volume of a payload prepare_payload built is an exact multiple of the
\* volume step 10^-volScale (an int when volScale is 0) and is not below one step.
C12_VolumeOnStep ==
    (Computed /\ calc.pay # NoPayload) =>
        /\ IF calc.tok.volScale = 0
           THEN calc.pay.volInt /\ calc.pay.vol.e >= 0
           ELSE IsDecimal(calc.pay.vol, calc.tok.volScale)
        /\ FLe(StepOf(calc.tok), calc.pay.vol)

\* floor(margin * leverage * 10^s / (price * contract_size)), computed exactly.
ExactSteps(margin, leverage, price, contract_size, s) ==
    LET n == margin * leverage * Pow10(s)
        d == price.m * contract_size.m
        e == price.e + contract_size.e
    IN  IF e <= 0 THEN (n * Pow2(-e)) \div d ELSE n \div (d * Pow2(e))

\* The margin of an order: the global margin capped by the token's max_margin.
CappedMargin(max_margin, tok) ==
    IF tok.max_margin > 0 THEN Min(max_margin, tok.max_margin) ELSE max_margin

\* C13: the payload's volume is (margin * leverage) / price / contractSize
\* floored to the volume step, the margin being the global margin capped by the
\* token's max_margin, and every order of at least one step gets a payload; for
\* margin 50, leverage 10, price 2.0, contractSize 1, volScale 0 it is the int 250.
C13_VolumeIsFlooredRaw ==
    Computed =>
        LET k == ExactSteps(CappedMargin(calc.max_margin, calc.tok), calc.leverage,
                            calc.limit_price, calc.tok.contractSize, calc.tok.volScale)
        IN  IF k < 1 THEN calc.pay = NoPayload
            ELSE /\ calc.pay # NoPayload
                 /\ calc.pay.vol = Dec(k, calc.tok.volScale)
                 /\ calc.pay.volInt = (calc.tok.volScale = 0)

\* C14: the entry price and the trigger prices have at most priceScale decimal
\* digits and are never greater than the raw price they were computed from.
C14_PricesTruncated ==
    LET ps == calc.tok.priceScale IN
    /\ (Computed /\ calc.pay # NoPayload) =>
           /\ IsDecimal(calc.pay.price, ps)
           /\ FLe(calc.pay.price, calc.limit_price)
    /\ (calc.pc = "done" /\ calc.tp_pct # 0) =>
           /\ IsDecimal(calc.tp, ps)
           /\ FLe(calc.tp, raw_tp_price(calc.limit_price, calc.side, calc.tp_pct))
    /\ (calc.pc = "done" /\ calc.sl_pct # 0) =>
           /\ IsDecimal(calc.sl, ps)
           /\ FLe(calc.sl, raw_sl_price(calc.limit_price, calc.side, calc.sl_pct))

\* C15: every HTTP request follows an acquire() of its own: a call sends at most
\* one request per admission, and the requests sent never outnumber the
\* admissions granted.
C15_RequestPerAdmission ==
    /\ \A c \in Callers : sent[c] <= 1
    /\ requests <= SumLog(admitLog, 0, MaxTime)

\* The caller is suspended inside acquire().
Suspended(c) == callerPc[c] \in {"waitlock", "locked", "sleeping"}

\* The clock has reached the horizon of the model with the window still full:
\* the oldest timestamp never ages out.
ClockStopped == now = MaxTime /\ ~HasCapacity(Evict(timestamps, now))

\* C16: while time advances, every caller suspended in acquire() is eventually
\* admitted; a sleep ends when the oldest timestamp of the window ages out, and
\* the caller whose sleep ends is admitted at once, without sleeping again.
C16_EventuallyAdmitted ==
    /\ \A c \in Callers :
          Suspended(c) ~> (callerPc[c] = "admitted" \/ ClockStopped)
    /\ [](\A c \in Callers :
             callerPc[c] = "sleeping" =>
                 /\ timestamps # <<>>
                 /\ wakeAt[c] = Head(timestamps) + TicksPerSecond)
    /\ [][\A c \in Callers :
             (callerPc[c] = "sleeping" /\ callerPc'[c] # "sleeping") =>
                 callerPc'[c] = "admitted"]_vars

\* A caller admitted at the end of its sleep, before the clock's horizon.
C16_Witness ==
    \E c \in Callers :
        /\ callerPc[c] = "admitted"
        /\ wakeAt[c] = now
        /\ now > 0
        /\ now < MaxTime
        /\ Len(timestamps) = RateLimit

\* The suspension points of handle_order in the order control passes them.
HandleOrderPath ==
    <<"plan_orders", "fetch_pos", "wait_fill", "create", "oneway", "retry_short",
      "retry_long", "cancel_plan", "cancel_orders", "lev_short", "lev_long">>

\* Number of suspension points of handle_order that may still lie ahead.
PcRank(pc) ==
    IF pc \in HandleOrderPcs
    THEN CHOOSE i \in 1..Len(HandleOrderPath) : HandleOrderPath[i] = pc
    ELSE 0

\* Passes the polling loop at pc may still make.
PollsLeft(pc, done) ==
    IF pc = "wait_fill" THEN WaitPolls - done
    ELSE IF pc = "fetch_pos" THEN FetchAttempts - done
    ELSE 0

\* An upper bound on the exchange calls handle_order may still await.
Rank(pc, done) == PcRank(pc) * (MaxPolls + 2) + PollsLeft(pc, done)

\* C17: handle_order always comes to its end when every exchange call returns:
\* every return of an awaited call brings handle_order strictly closer to its
\* cleanup, because the order-status polling and the open-positions fallback
\* each stop after their bounded number of passes (fewer status polls for a
\* market order than for a limit order), and once handle_order is left its
\* cleanup has run.
C17_HandleOrderTerminates ==
    /\ [][HandleOrderStep =>
            /\ Rank(engPc', polls') < Rank(engPc, polls)
            /\ Rank(engPc', polls') >= 0
            /\ engPc' \notin HandleOrderPcs => ~order_in_process'[token]]_vars
    /\ [](engPc = "wait_fill" => polls < WaitPolls)
    /\ [](engPc = "fetch_pos" => polls < FetchAttempts)
    /\ [](settings.ENTRY_ORDER_TYPE = "market" => WaitPolls < MaxPolls + 1)

\* The last pass of the open-positions fallback, after the status polling ran
\* into its deadline.
C17_Witness ==
    /\ engPc = "fetch_pos"
    /\ polls = FetchAttempts - 1
    /\ polls > 0

\* C18: an exception raised inside the body of either loop does not end the
\* task: the engine goes on to its next get() (after sleep(1) when the exception
\* reached start_process), the monitor goes to its sleep and the next cycle; the
\* engine stops only when it is cancelled.
C18_LoopsSurviveExceptions ==
    /\ [][/\ (engPc # "stopped" /\ engPc' = "stopped") => EngCancel
          /\ EngRaise => engPc' = "get"
          /\ EngRaiseOuter => engPc' = "sleep_err"
          /\ EngSleepDone => engPc' = "get"
          /\ (ev'.raised /\ ~ev.raised) => monPc' = "sleep"]_vars
    /\ [](monPc # "stopped")

\* Both loops are alive after each of them has seen an exception.
C18_Witness ==
    /\ ev.raised
    /\ monPc = "sleep"
    /\ hist.outcome \in {"exception", "error"}
    /\ engPc = "get"

\* C19: unless the task is cancelled, it returns again and again to a state
\* where every candidate enqueued so far has been dequeued and signalled; a
\* candidate is taken from the head of the queue only when no candidate is in
\* hand, so each is dequeued once and processed to the end before the next;
\* task_done is signalled once for the candidate in hand and never without
\* one, so the unfinished count is the queue plus the candidate in hand.
C19_ExactlyOnce ==
    /\ []<>(unfinished = 0 \/ engPc = "stopped")
    /\ [](unfinished = Len(orders_queue) + (IF order # NoOrder THEN 1 ELSE 0))
    /\ [](order # NoOrder <=> engPc \notin {"get", "stopped"})
    /\ [][/\ EngGet =>
               /\ order = NoOrder
               /\ order' = Head(orders_queue)
               /\ orders_queue' = Tail(orders_queue)
               /\ unfinished' = unfinished
          /\ orders_queue' # orders_queue => EngGet \/ Enqueue
          /\ unfinished' < unfinished =>
               /\ unfinished' = unfinished - 1
               /\ order # NoOrder
               /\ order' = NoOrder]_vars

\* One candidate was processed and signalled while the next one waits.
C19_Witness ==
    /\ engPc = "get"
    /\ hist.outcome # "none"
    /\ produced = MaxCandidates
    /\ Len(orders_queue) = 1
    /\ unfinished = 1

\* C20: a candidate whose processing was interrupted by the cancellation of the
\* task is still counted as unfinished: it was not consumed.
C20_InterruptedNotConsumed ==
    (engPc = "stopped" /\ hist.outcome = "cancelled") => unfinished > Len(orders_queue)

\* The volume the caller of close_position asked for: close_vol, or the whole
\* position when close_vol is None.
Requested == IF calc.given THEN calc.close_vol ELSE calc.hold_vol

\* C21: a close order that close_position submits has the volume
\* min(requested, held) and that volume is positive; when min(requested, held)
\* is zero or negative nothing is submitted and the call returns False.
C21_CloseVolume ==
    calc.pc # "args" =>
        /\ calc.sent => /\ calc.vol = Min(Requested, calc.hold_vol)
                        /\ calc.vol > 0
        /\ Min(Requested, calc.hold_vol) <= 0 =>
              /\ ~calc.sent
              /\ calc.pc = "done"
              /\ ~calc.ret

\* A request above the held volume was cut to the held volume and answered.
C21_Witness ==
    /\ calc.pc = "done"
    /\ calc.given
    /\ calc.close_vol > calc.hold_vol
    /\ calc.sent
    /\ calc.ret

\* The await after which start_process goes through its admission tests.
AdmissionPoint ==
    \/ engPc = "cooldown_check"
    \/ engPc = "read_settings" /\ ~settings.USE_COOLDOWN

\* The candidate in hand is one the admission tests reject.
MustReject ==
    LET s == order.mexc_symbol
    IN  \/ engPc = "read_settings" /\ s \notin Symbols
        \/ /\ AdmissionPoint
           /\ s \in Symbols
           /\ \/ is_ignored[s]
              \/ order_in_process[s]
              \/ settings.USE_COOLDOWN /\ cooldown[s] # 0

\* C22: when start_process resumes with a candidate whose symbol is unknown,
\* ignored, already in process or in cooldown, it drops the candidate and is
\* back at the queue without any exchange call and without any write to the
\* State Store; a dropped candidate never made an exchange call.
C22_RejectionWritesNothing ==
    /\ [](hist.outcome = "dropped" => ~hist.called /\ ~hist.created /\ ~hist.admitted)
    /\ [][(MustReject /\ StartProcessStep) =>
             /\ hist'.outcome = "dropped"
             /\ engPc' = "get"
             /\ ~hist'.called
             /\ UNCHANGED <<cooldown, initial_spread, positions>>]_vars

\* A candidate was rejected because its symbol had an order in process, while
\* the other symbol's cooldown key stayed in the store.
C22_Witness ==
    /\ hist.outcome = "dropped"
    /\ hist.rejected = "in_process"
    /\ \E s \in Symbols : s # hist.symbol /\ cooldown[s] # 0

\* The start_process task rejects the candidate in hand.
Rejection == hist.outcome = "none" /\ hist'.outcome = "dropped"

\* C23: the rejection of a candidate of a known symbol (ignored, cooldown or
\* order already in process) leaves the symbol's orderInProcess flag as it was.
C23_RejectionKeepsFlag ==
    [][(Rejection /\ hist'.rejected # "unknown") =>
          order_in_process'[hist'.symbol] = order_in_process[hist'.symbol]]_vars

\* The suspension points of the hedge-mode leverage protocol before its verdict.
LeveragePcs ==
    {"lev_long", "lev_short", "cancel_orders", "cancel_plan", "retry_long", "retry_short"}

\* C24: in hedge mode a first pair of answers with code 2019 on either side is
\* followed by cancel_all_orders, then cancel_all_plan_orders, and only then
\* by the retries: the long side iff its answer was not a success, then the
\* short side iff its answer was not a success; no call of the protocol is
\* issued twice and the protocol never goes back.
C24_CancelThenRetryOnce ==
    [][/\ (engPc = "lev_short" /\ HandleOrderStep
              /\ (is_2019(long_res') \/ is_2019(short_res')))
            => engPc' = "cancel_orders"
       /\ (engPc' = "cancel_orders" /\ engPc # "cancel_orders")
            => /\ engPc = "lev_short"
               /\ settings.IS_HEDGE_MODE
               /\ is_2019(long_res') \/ is_2019(short_res')
       /\ (engPc = "cancel_orders" /\ HandleOrderStep) => engPc' = "cancel_plan"
       /\ (engPc' = "cancel_plan" /\ engPc # "cancel_plan") => engPc = "cancel_orders"
       /\ (engPc = "cancel_plan" /\ HandleOrderStep)
            => engPc' = IF ok(long_res) THEN "retry_short" ELSE "retry_long"
       /\ (engPc' = "retry_long" /\ engPc # "retry_long")
            => engPc = "cancel_plan" /\ ~ok(long_res)
       /\ (engPc = "retry_long" /\ HandleOrderStep)
            => (engPc' = "retry_short" <=> ~ok(short_res))
       /\ (engPc' = "retry_short" /\ engPc # "retry_short")
            => /\ ~ok(short_res)
               /\ short_res' = short_res
               /\ engPc = "retry_long" \/ (engPc = "cancel_plan" /\ ok(long_res))
       /\ (engPc \in LeveragePcs /\ HandleOrderStep) => engPc' # engPc
       /\ engPc \in {"retry_long", "retry_short"}
            => engPc' \notin {"lev_long", "lev_short", "cancel_orders", "cancel_plan"}
       /\ engPc = "retry_short" => engPc' # "retry_long"]_vars

\* The long side succeeded at once, the short side answered 2019: after both
\* cancellations only the short side is being retried.
C24_Witness ==
    /\ engPc = "retry_short"
    /\ ok(long_res)
    /\ is_2019(short_res)

\* handle_order ran to an end of its own (no exception, no cancellation) past
\* the settings test.
Returned == hist.outcome \in {"lev_fail", "payload_rejected", "create_fail", "placed"}

\* The leverage protocol ended well: both sides succeeded, or the one-way
\* fallback did.
LeverageSet(long, short, oneway) == (ok(long) /\ ok(short)) \/ ok(oneway)

\* C25: in hedge mode, when handle_order returns with the leverage protocol
\* ended otherwise than by both sides succeeding or by a successful one-way
\* fallback, the returning step has written the 60 s cooldown of the symbol and
\* no create-order request was made for the candidate; a create-order request
\* is only ever made after one of the two good endings.
C25_LeverageFailureCoolsDown ==
    /\ [](settings.IS_HEDGE_MODE /\ hist.created
            => LeverageSet(IF hist.outcome = "none" THEN long_res ELSE hist.exitLong,
                           IF hist.outcome = "none" THEN short_res ELSE hist.exitShort,
                           hist.onewayRes))
    /\ []((settings.IS_HEDGE_MODE /\ Returned
              /\ ~LeverageSet(hist.exitLong, hist.exitShort, hist.onewayRes))
            => ~hist.created /\ hist.exitCooldown)
    /\ [][(/\ settings.IS_HEDGE_MODE
           /\ hist.outcome = "none"
           /\ Returned'
           /\ ~LeverageSet(hist'.exitLong, hist'.exitShort, hist'.onewayRes))
            => cooldown'[hist'.symbol] = FailCooldown]_vars

\* The long side succeeded and the short side failed with another code: the
\* candidate ended with the cooldown and without an order.
C25_Witness ==
    /\ settings.IS_HEDGE_MODE
    /\ Returned
    /\ ok(hist.exitLong)
    /\ hist.exitShort = "EOTHER"
    /\ ~hist.created
    /\ cooldown[hist.symbol] = FailCooldown

\* C26: in one-way mode no per-side leverage request is ever in flight, and a
\* candidate whose create-order request was submitted had exactly one
\* leverage-change request (without position type) issued before it.
C26_OneLeverageRequest ==
    ~settings.IS_HEDGE_MODE =>
        /\ engPc \notin LeveragePcs
        /\ hist.created => hist.oneway = 1

\* C27: in the step that ends the processing of a candidate, the success
\* cooldown (COOLDOWN_SECONDS) is written only when the order was placed, and
\* after a create-order failure the symbol's cooldown is the failure cooldown.
C27_CooldownMatchesOutcome ==
    [][(hist.outcome = "none" /\ hist'.outcome \in HandleOrderOutcomes) =>
          LET s == hist'.symbol
          IN  /\ (cooldown'[s] # cooldown[s] /\ cooldown'[s] = settings.COOLDOWN_SECONDS)
                    => hist'.outcome = "placed"
              /\ hist'.outcome = "create_fail" => cooldown'[s] = FailCooldown]_vars

PollingPcs == {"wait_fill", "fetch_pos"}

\* The protective orders the settings ask for.
ConfiguredKinds ==
    (IF settings.EXCHANGE_TAKE_PROFIT_PERCENT # 0 THEN {"tp"} ELSE {})
        \cup (IF settings.EXCHANGE_STOP_LOSS_PERCENT # 0 THEN {"sl"} ELSE {})

\* C28: the order status or the positions are polled only after a successful
\* answer to the create-order request; plan orders are submitted only out of
\* the polling, with a position id resolved: one reduce-only close order per
\* configured percent, each of the order's volume and bound to that position
\* id; after a failed creation there is neither polling nor a plan order.
C28_LifecycleOrder ==
    /\ [](engPc \in PollingPcs \cup {"plan_orders"}
            => hist.createRes \in {"OK_ID", "OK_NOID"})
    /\ [](hist.createRes = "FAIL" => hist.plans = {} /\ hist.outcome # "none")
    /\ [](hist.plans # {} =>
            /\ hist.createRes \in {"OK_ID", "OK_NOID"}
            /\ \A pl \in hist.plans : pl.positionId \in PosIds /\ pl.reduceOnly
            /\ { pl.kind : pl \in hist.plans } = ConfiguredKinds
            /\ Cardinality(hist.plans) = Cardinality(ConfiguredKinds))
    /\ [][/\ (engPc' \in PollingPcs /\ engPc \notin PollingPcs) => engPc = "create"
          /\ hist'.plans # hist.plans /\ hist'.plans # {} =>
                /\ engPc \in PollingPcs
                /\ engPc' = "plan_orders"
                /\ pos_id' # 0
                /\ \A pl \in hist'.plans :
                      /\ pl.positionId = pos_id'
                      /\ pl.vol = payload.vol
                      /\ pl.symbol = token
                /\ positions[pos_id'] > 0]_vars

\* Only the stop-loss percent is configured: one plan order, bound to the
\* resolved position, is in flight.
C28_Witness ==
    /\ engPc = "plan_orders"
    /\ settings.EXCHANGE_STOP_LOSS_PERCENT # 0
    /\ settings.EXCHANGE_TAKE_PROFIT_PERCENT = 0
    /\ Cardinality(hist.plans) = 1
    /\ \A pl \in hist.plans : pl.kind = "sl" /\ pl.positionId = pos_id

\* C29: for a long position the take-profit trigger is above and the stop-loss
\* trigger below the entry price, for a short position the take-profit trigger
\* is below and the stop-loss trigger above it, and the close side is 4 for a
\* long and 2 for a short.
C29_TriggersOnCorrectSide ==
    calc.pc = "done" =>
        /\ calc.close_side = (IF calc.side = 1 THEN 4 ELSE 2)
        /\ calc.tp_pct # 0 =>
              IF calc.side = 1 THEN FLt(calc.limit_price, calc.tp)
              ELSE FLt(calc.tp, calc.limit_price)
        /\ calc.sl_pct # 0 =>
              IF calc.side = 1 THEN FLt(calc.sl, calc.limit_price)
              ELSE FLt(calc.limit_price, calc.sl)

\* The caller is inside acquire().
InAcquire(c) == callerPc[c] \in {"waitlock", "locked", "sleeping"}

\* C30: the lock is owned or waited for only by callers inside acquire(), so
\* never by a caller whose request is in flight; and whenever no caller is
\* inside acquire() the lock is free and a caller entering acquire() with
\* room in the window is admitted at once, whatever requests are in flight.
C30_LockOnlyInsideAcquire ==
    /\ [](\A c \in Callers :
            ~InAcquire(c) =>
                /\ lockOwner # c
                /\ \A i \in 1..Len(lockWaiters) : lockWaiters[i] # c)
    /\ []((\A c \in Callers : ~InAcquire(c)) => lockOwner = 0)
    /\ [][\A d \in Callers :
            (/\ Acquire(d)
             /\ \A c \in Callers : ~InAcquire(c)
             /\ HasCapacity(Evict(timestamps, now)))
              => callerPc'[d] = "admitted"]_vars

\* One caller is in the middle of get_open_positions, with a request in
\* flight, and the other has been admitted meanwhile.
C30_Witness ==
    /\ callerPc[1] = "admitted"
    /\ sent[1] = 1
    /\ callerPc[2] = "admitted"
    /\ admitLog[now] = 1
    /\ lockOwner = 0

\* C31: within the evaluation of one position in one monitor cycle at most one
\* close order is submitted: once a strategy has fired a close, no later
\* strategy of the fixed order submits another for that position.
C31_OneClosePerPosition ==
    ev.closes <= 1

\* The price has retraced by at least the trailing percent from the peak.
Retraced(p, price, peak) ==
    IF PosCfg(p).positionType = 1
    THEN price * 1000 <= peak * (1000 - settings.TRAILING_PERMILLE)
    ELSE price * 1000 >= peak * (1000 + settings.TRAILING_PERMILLE)

\* C32: once a peak has been persisted for a position (its PnL crossed the
\* activation threshold), every later evaluation of the trailing stop at a
\* price that has retraced by the trailing percent from that peak submits a
\* full close of the position, whatever the PnL is by then (stated for the
\* evaluations in which the account token of the close call is bound).
C32_TrailingStaysActive ==
    [][(/\ monPc = "trailing"
        /\ monPc' # "trailing"
        /\ auth_token # 0
        /\ settings.USE_TRAILING_STOP
        /\ peak_price[mpos] # 0
        /\ Retraced(mpos, current_price, peak_price[mpos]))
          => (/\ ev'.closes = ev.closes + 1
              /\ ev'.closeVol = snap[mpos])]_vars

\* C33: whenever the timeout strategy is reached for a position older than the
\* configured maximum, a full close is submitted; a successful close sets the
\* timeout cooldown of the symbol and clears the position's keys, a failed one
\* changes neither the cooldown nor the keys.
C33_TimeoutCloses ==
    [][(/\ monPc = "timeout"
        /\ monPc' # "timeout"
        /\ settings.MAX_POSITION_HOURS # 0
        /\ aged[mpos])
          => (/\ ev'.closes = ev.closes + 1
              /\ ev'.closeVol = snap[mpos]
              /\ IF positions'[mpos] = 0
                 THEN /\ cooldown'[PosCfg(mpos).symbol] = settings.TIMEOUT_COOLDOWN_SECONDS
                      /\ peak_price'[mpos] = 0
                      /\ initial_vol'[mpos] = 0
                      /\ ~initial_spread'[mpos]
                 ELSE UNCHANGED <<cooldown, peak_price, initial_vol, initial_spread>>)]_vars

\* C34: an add-on attempt starts only when the lock of (position, current
\* entry counter) is absent, and takes it; the entry counter changes only by
\* a confirmed add-on order, and by at most one per attempt.
C34_OneIncrementPerAttempt ==
    /\ [][(monPc = "pyramiding" /\ monPc' = "pyr_create")
            => (/\ ~pyramiding_lock[mpos][pyramiding_entries[mpos]]
                /\ pyramiding_lock'[mpos][pyramiding_entries[mpos]])]_vars
    /\ [][\A p \in PosIds :
            pyramiding_entries'[p] - pyramiding_entries[p] = addons'[p] - addons[p]]_vars
    /\ [](ev.incrs <= 1)

\* C35: the pyramiding entry counter of a position, and the number of add-on
\* orders placed for it, never exceed the configured max_entries.
C35_EntriesAtMostMax ==
    \A p \in PosIds :
        /\ pyramiding_entries[p] <= settings.PYRAMIDING_CONFIG.max_entries
        /\ addons[p] <= settings.PYRAMIDING_CONFIG.max_entries

\* The Scaling Out step submits a close order.
ScalingCloses ==
    /\ monPc = "scaling"
    /\ ev'.closes = ev.closes + 1

\* C36: a Scaling Out step submits at most one close order; it is for the
\* reached, unmarked target of lowest PnL threshold and its volume is that
\* target's fraction of the stored baseline, rounded (close_position sends
\* the held volume when less than that is held); the baseline of an open
\* position is never rewritten; a marker is set only for the target whose
\* close order succeeded, and a failed close leaves every marker as it was.
C36_ScalingOut ==
    /\ [][ScalingCloses =>
            LET p == mpos
                T == Sorted(settings.SCALING_OUT_TARGETS)
                i == ev'.target
                fraction == Round(initial_vol'[p] * T[i].num, T[i].den)
            IN  /\ ev.closes = 0
                /\ i \in 1..Len(T)
                /\ PnlGe(p, current_price, T[i].pnl_percent)
                /\ ~target_hit[p][i]
                /\ \A j \in 1..Len(T) :
                      (PnlGe(p, current_price, T[j].pnl_percent) /\ ~target_hit[p][j])
                          => T[i].pnl_percent <= T[j].pnl_percent
                /\ ev'.closeVol = Min(fraction, snap[p])
                /\ IF positions'[p] < positions[p]
                   THEN target_hit' = [target_hit EXCEPT ![p][i] = TRUE]
                   ELSE target_hit' = target_hit]_vars
    /\ [][\A p \in PosIds, i \in Targets :
            (target_hit'[p][i] /\ ~target_hit[p][i]) => ScalingCloses]_vars
    /\ [][\A p \in PosIds :
            (initial_vol[p] # 0 /\ positions'[p] > 0) => initial_vol'[p] = initial_vol[p]]_vars

\* In a later cycle the higher target is closed from the baseline, after the
\* lower one was marked hit and the held volume had gone down.
C36_Witness ==
    /\ cycles > 1
    /\ ev.target = 2
    /\ ev.closes = 1
    /\ ev.holdVol < initial_vol[ev.pos]
    /\ ev.closeVol = Min(Round(initial_vol[ev.pos], 2), ev.holdVol)
    /\ ev.closeVol > Round(ev.holdVol, 2)
    /\ target_hit[ev.pos][1]
    /\ target_hit[ev.pos][2]

\* C37: every key the monitor writes while it evaluates a position is
\* written with an expiry.
C37_EveryKeyExpires ==
    \A w \in ev.written : w.ex > 0

\* The evaluation of the position at hand stops at an item with a missing field.
IncompleteItem ==
    /\ monPc = "pyramiding"
    /\ ev'.done
    /\ ev'.holdVol = 0

\* C38: when the position at hand, or its ticker, lacks a required field, the
\* loop goes on with the next position of the cycle's snapshot: the cycle
\* ends there only if that position was the last one.
C38_OnlyOffenderSkipped ==
    [][IncompleteItem =>
          /\ mpos' = NextPos(mpos)
          /\ NextPos(mpos) # 0 => monPc' = "pyramiding"]_vars

\* C39: no step replaces the cooldown of a symbol by one written with a
\* shorter expiry.
C39_CooldownNeverShortened ==
    [][\A s \in Symbols :
          (cooldown[s] # 0 /\ cooldown'[s] # 0) => cooldown'[s] >= cooldown[s]]_vars

\* The update carries a symbol, a best bid, a best ask and a reference price.
CompleteUpdate(m) ==
    /\ m.type \in {"TEXT", "BINARY"}
    /\ m.body = "symbol_update"
    /\ m.payload = "dict"
    /\ m.symbol \in {"ABC_USDT", "xyz"}
    /\ m.bid >= 0
    /\ m.ask >= 0
    /\ m.dex >= 0

\* 1.2 <= |dex - mid| / mid * 100 <= 90 with mid = (bid + ask) / 2, in exact
\* arithmetic.
SpreadInRange(m) ==
    LET twice_mid == m.bid + m.ask
        twice_diff == IF 2 * m.dex >= twice_mid
                      THEN 2 * m.dex - twice_mid ELSE twice_mid - 2 * m.dex
    IN  /\ twice_mid > 0
        /\ 12 * twice_mid <= 1000 * twice_diff
        /\ 100 * twice_diff <= 90 * twice_mid

\* The Signal Source has handled one more message.
Received ==
    /\ calc.pc = "receive"
    /\ calc'.n = calc.n + 1

\* C40: a message makes the Signal Source enqueue one candidate, for the
\* normalised symbol, if it is a complete symbol update whose spread against
\* the mid-price is within the range, and nothing otherwise; and whatever the
\* message, the feed loop goes on (it receives, or backs off and reconnects).
C40_EnqueueIffInRange ==
    /\ [][Received =>
            LET m == calc'.msg
            IN  /\ IF CompleteUpdate(m) /\ SpreadInRange(m)
                   THEN /\ Len(orders_queue') = Len(orders_queue) + 1
                        /\ SubSeq(orders_queue', 1, Len(orders_queue)) = orders_queue
                        /\ orders_queue'[Len(orders_queue')].mexc_symbol
                              = (IF m.symbol = "xyz" THEN "XYZ_USDT" ELSE m.symbol)
                        /\ orders_queue'[Len(orders_queue')].percent.neg
                              = (2 * m.dex < m.bid + m.ask)
                   ELSE orders_queue' = orders_queue
                /\ calc'.pc \in {"receive", "backoff"}]_vars
    /\ [](calc.pc \in {"connect", "receive", "backoff"})

\* After a message that enqueued nothing, an update with a negative spread
\* within the range was enqueued under its normalised symbol.
C40_Witness ==
    /\ calc.n = MaxMessages
    /\ calc.did = "put"
    /\ Len(orders_queue) = 1
    /\ orders_queue[1].mexc_symbol = "XYZ_USDT"
    /\ orders_queue[1].percent.neg
    /\ calc.pc = "receive"

====
